---- MODULE Spec2Model ----
(***************************************************************************)
(* Order backend (src/server.js): the pedidos table and the request        *)
(* handlers that write or read it:                                         *)
(*   POST /criar-preferencia        (checkout)                             *)
(*   POST /notificacao-pagamento    (Mercado Pago payment webhook)         *)
(*   POST /webhook-melhorenvio      (Melhor Envio tracking webhook)        *)
(*   GET  /checar-pedidos-expirados (expiry sweep, cron)                   *)
(*   POST /rastrear-pedido          (order lookup)                         *)
(* Every `await` of a handler is a step of its own, so that handlers       *)
(* interleave exactly where Node.js lets them interleave.  One db.query is *)
(* one atomic statement of the database.                                   *)
(***************************************************************************)
EXTENDS Integers, Sequences, FiniteSets, TLC

\* ------------------------------------------------------------------ bounds
NumPedidos == 1         \* rows of pedidos when the server starts
MaxPagamentos == 2      \* deliveries of the payment webhook
MaxCron == 1            \* runs of the expiry sweep
MaxRastreios == 1       \* deliveries of the tracking webhook
MaxTicks == 1           \* advances of the clock
MaxCheckouts == 2       \* checkout requests
MaxConsultas == 1       \* order lookups
MaxFretes == 2          \* shipping-quote requests
MaxRepetidos == 2       \* sweeps, and tracking webhooks, that meet each other
NumPedidosVencidos == 2 \* orders that meet those, past their deadline

\* --------------------------------------------------------------- constants
EXPIRACAO_MINUTOS == 60
\* the calls of the primary postal service one quote may make
maxAttempts == 3

\* the ids of the orders in the table when the server starts
PedidosNoInicio == 1..NumPedidos
MpHooks == 1..MaxPagamentos
CronRuns == 1..MaxCron
MeHooks == 1..MaxRastreios

\* status column of pedidos
AGUARDANDO == "AGUARDANDO_PAGAMENTO"
PENDENTE == "PAGAMENTO_PENDENTE"
EM_PRODUCAO == "EM_PRODUCAO"
ENVIADO == "ENVIADO"
CANCELADO == "CANCELADO_POR_EXPIRACAO"

NULL == "null"

\* Text (a header, a query parameter, a secret) is a sequence of characters;
\* Nulo is the text that is not there (undefined, null)
Nulo == <<"null">>

\* what the environment can send: ?topic= (the older notifications) and
\* ?type= (the newer ones)
Topics == {"payment", "merchant_order"}
Types == {"payment", "subscription"}
PaymentIds == {"pay1", "pay2"}
PaymentStatuses == {"approved", "pending", "rejected"}
\* every status the gateway reports for a payment, and a payment without one
TodosOsStatus ==
  {"approved", "pending", "rejected", "cancelled", "refunded", "in_process",
   "authorized", NULL}
\* the gateway's record of a payment: payment_type_id, payment_method_id and
\* card.last_four_digits are fixed per payment, its status changes over time
PaymentKind(id) ==
  IF id = "pay1"
  THEN [payment_type_id |-> "credit_card", payment_method_id |-> "visa", card |-> "4242"]
  ELSE [payment_type_id |-> "bank_transfer", payment_method_id |-> "pix", card |-> NULL]
MeIds == {"me1"}
TrackingCodes == {"BR123"}
\* the clock moves to just past the next payment window
ClockSteps == {EXPIRACAO_MINUTOS + 1}

VARIABLES
  pedidos,    \* the table: id -> row
  now,        \* NOW() of the database, minutes since the orders were created
  ticks,      \* clock advances so far
  mp,         \* payment webhook requests: id -> position and locals
  cron,       \* sweep requests
  me,         \* tracking webhook requests
  enviados,   \* per order: e-mails handed to sendEmail, by template
  carrinho,   \* per order: calls of the Melhor Envio cart API
  gravacoes,  \* per order: writes of melhor_envio_id
  trilha,     \* per order: the statuses it has had, in order
  webhook,    \* a payment webhook request at its signature check (963)
  pref,       \* checkout requests
  preferencias,  \* the checkout sessions the gateway has created, in order
  rastreio,   \* order lookups
  correio,    \* one call of sendEmail: its configuration, provider and result
  cep         \* shipping-quote requests at their postal lookup

\* the storefront's side: checkout and lookup
loja == <<pref, preferencias, rastreio, correio, cep>>

vars ==
  <<pedidos, now, ticks, mp, cron, me, enviados, carrinho, gravacoes, trilha, webhook,
    pref, preferencias, rastreio, correio, cep>>

\* the ids of the rows of the table (AUTO_INCREMENT from 1, no row is deleted)
Pedidos == DOMAIN pedidos

\* ------------------------------------------------------------------- state
\* a checkout that sets the deadline to the moment of the order
NovoPedidoSemJanela ==
  [ status |-> AGUARDANDO,
    mercado_pago_id |-> NULL,
    metodo_pagamento |-> NULL,
    final_cartao |-> NULL,
    melhor_envio_id |-> NULL,
    codigo_rastreio |-> NULL,
    cpf_cliente |-> <<"1", "1">>,
    email_cliente |-> "a@x",
    valor_total |-> 150,
    data_criacao |-> 0,
    expiracao_pix |-> 0 ]

\* A row as /criar-preferencia inserts it (server.js 737-763): status
\* AGUARDANDO_PAGAMENTO, the PIX deadline at creation + EXPIRACAO_MINUTOS,
\* every payment and shipping column NULL.  This one is the order of customer
\* 1.1 (a@x) for 50 x 2 + 30 x 1 and 20 of shipping, created at minute 0.
NovoPedido ==
  [ status |-> AGUARDANDO,
    mercado_pago_id |-> NULL,
    metodo_pagamento |-> NULL,
    final_cartao |-> NULL,
    melhor_envio_id |-> NULL,
    codigo_rastreio |-> NULL,
    cpf_cliente |-> <<"1", "1">>,
    email_cliente |-> "a@x",
    valor_total |-> 150,
    data_criacao |-> 0,
    expiracao_pix |-> 0 + EXPIRACAO_MINUTOS ]

MpIdle ==
  [ pc |-> "idle", topic |-> "payment", sigOk |-> TRUE, paymentId |-> NULL,
    paymentStatus |-> NULL, isApproved |-> FALSE, pedidoId |-> 0, pedidoDoBanco |-> NULL,
    affectedRows |-> -1,
    pedidoAtualizado |-> NULL, emailOk |-> NULL, melhorEnvioId |-> NULL,
    resp |-> 0, fim |-> "none", concorrente |-> FALSE, cancelados |-> {} ]

CronIdle ==
  [ pc |-> "idle", CRON_SECRET |-> NULL, token |-> NULL, fila |-> <<>>, n |-> 0,
    emailOk |-> NULL, resp |-> 0 ]

MeIdle ==
  [ pc |-> "idle", event |-> NULL, id |-> NULL, tracking |-> NULL, pedidoId |-> 0,
    resp |-> 0 ]

PrefIdle ==
  [ pc |-> "idle", body |-> NULL, total |-> 0, expiracaoPix |-> 0, novoPedidoId |-> 0,
    resp |-> 0, json |-> NULL ]

RastreioIdle ==
  [ pc |-> "idle", cpf |-> Nulo, email |-> NULL, resp |-> 0, json |-> NULL ]

\* a quote request: attempts is the loop's counter, viaCep and brasilApi count
\* the calls of the two postal services, addressInfo names the service that
\* answered
CepIdle ==
  [ pc |-> "idle", attempts |-> 0, viaCep |-> 0, brasilApi |-> 0, addressInfo |-> NULL,
    resp |-> 0 ]

\* no checkout, no lookup and no quote has arrived, the gateway has no
\* session, sendEmail has not been called
LojaParada ==
  /\ pref = [c \in 1..MaxCheckouts |-> PrefIdle]
  /\ preferencias = <<>>
  /\ rastreio = [q \in 1..MaxConsultas |-> RastreioIdle]
  /\ correio = [pc |-> "idle"]
  /\ cep = [f \in 1..MaxFretes |-> CepIdle]

\* no request at the signature check
SemWebhook ==
  [ pc |-> "idle", origem |-> <<>>, req |-> <<>>, MP_WEBHOOK_SECRET |-> Nulo,
    sig |-> [ok |-> FALSE, reason |-> "none"] ]

Init ==
  /\ pedidos = [o \in PedidosNoInicio |-> NovoPedido]
  /\ now = 0
  /\ ticks = 0
  /\ mp = [h \in MpHooks |-> MpIdle]
  /\ cron = [s \in CronRuns |-> CronIdle]
  /\ me = [t \in MeHooks |-> MeIdle]
  /\ enviados = [o \in PedidosNoInicio |-> [confirm |-> 0, tracking |-> 0, expiry |-> 0]]
  /\ carrinho = [o \in PedidosNoInicio |-> 0]
  /\ gravacoes = [o \in PedidosNoInicio |-> 0]
  /\ trilha = [o \in PedidosNoInicio |-> <<AGUARDANDO>>]
  /\ webhook = SemWebhook
  /\ LojaParada

\* ----------------------------------------------------------------- helpers
\* SELECT * FROM pedidos WHERE id = ?
SelectPorId(id) == {o \in Pedidos : o = id}

\* the statuses an order has had: a status is appended when a write changes it
Trilhar(antes, depois) ==
  [o \in Pedidos |->
     IF depois[o].status # antes[o].status
     THEN Append(trilha[o], depois[o].status)
     ELSE trilha[o]]

\* requests that have arrived and are not answered yet
MpEmVoo == {h \in MpHooks : mp[h].pc \notin {"idle", "done"}}

\* an answer that tells the gateway the payment's order was not found
MpResponde404(h, code, fim) ==
  mp' = [mp EXCEPT ![h].pc = "done", ![h].fim = fim,
                   ![h].resp = IF fim \in {"no_ref", "no_order"} THEN 404 ELSE code,
                   ![h].paymentStatus = NULL,
                   ![h].pedidoAtualizado = NULL, ![h].emailOk = NULL,
                   ![h].melhorEnvioId = NULL]

\* res.status(code).send(...): the request is answered and the handler returns
\* (its locals payment, pedidoAtualizado, result and melhorEnvioId go out of
\* scope)
MpResponde(h, code, fim) ==
  mp' = [mp EXCEPT ![h].pc = "done", ![h].resp = code, ![h].fim = fim,
                   ![h].paymentStatus = NULL,
                   ![h].pedidoAtualizado = NULL, ![h].emailOk = NULL,
                   ![h].melhorEnvioId = NULL]

\* a catch block that surfaces the error to the gateway instead
MpCatch500(h, causa) == MpResponde(h, 500, causa)

\* the catch block of the payment webhook (server.js 1056-1059); causa names
\* the call that threw: the gateway, a db.query, or the carrier
MpCatch(h, causa) == MpResponde(h, 200, causa)

\* server.js 1002-1009
MetodoPagamento(kind) ==
  IF kind.payment_type_id = "credit_card" THEN "Cartao de Credito"
  ELSE IF kind.payment_type_id = "ticket" THEN "Boleto"
  ELSE IF kind.payment_method_id = "pix" THEN "PIX"
  ELSE kind.payment_method_id

\* wider predecessor sets: a guard that lets a paid order through,
\* a guard that lets a cancelled order through
PredecessoresAprovadoComProducao == {AGUARDANDO, PENDENTE, EM_PRODUCAO}

PredecessoresAprovadoComCancelado == {AGUARDANDO, PENDENTE, CANCELADO}

PredecessoresPendenteComProducao == {AGUARDANDO, EM_PRODUCAO}

\* WHERE ... status IN ('AGUARDANDO_PAGAMENTO', 'PAGAMENTO_PENDENTE')  (1016)
PredecessoresAprovado == {AGUARDANDO, PENDENTE}

\* WHERE ... status = 'AGUARDANDO_PAGAMENTO'  (1039)
PredecessoresPendente == {AGUARDANDO}

\* the updates without their status condition: WHERE id = ? alone, as the first
\* version of the handler had it
AfetadosAprovadoSoPorId(id) == {o \in Pedidos : o = id}

AfetadosPendenteSoPorId(id) == {o \in Pedidos : o = id}

\* an approved UPDATE that consults the payment window: it matches the order
\* only until its deadline
AfetadosAprovadoNoPrazo(id) ==
  {o \in Pedidos : /\ o = id
                   /\ pedidos[o].status \in PredecessoresAprovado
                   /\ pedidos[o].expiracao_pix >= now}

\* the rows the approved UPDATE matches (1013-1019)
AfetadosAprovado(id) ==
  {o \in Pedidos : o = id /\ pedidos[o].status \in PredecessoresAprovado}

\* the rows the pending UPDATE matches (1038-1041)
AfetadosPendente(id) ==
  {o \in Pedidos : o = id /\ pedidos[o].status \in PredecessoresPendente}

\* ------------------------------------------------ webhook signature check
\* JavaScript's falsy strings: undefined, null and ''
Falsy(t) == t = Nulo \/ t = <<>>

\* a || b
Ou(a, b) == IF Falsy(a) THEN b ELSE a

\* String.prototype.trim
Espacos == {" ", "\t"}

RECURSIVE TrimStart(_)
TrimStart(t) == IF t # <<>> /\ Head(t) \in Espacos THEN TrimStart(Tail(t)) ELSE t

RECURSIVE TrimEnd(_)
TrimEnd(t) ==
  IF t # <<>> /\ t[Len(t)] \in Espacos THEN TrimEnd(SubSeq(t, 1, Len(t) - 1)) ELSE t

Trim(t) == TrimEnd(TrimStart(t))

\* String.prototype.split with a one-character separator
RECURSIVE Split(_, _)
Split(t, sep) ==
  IF \A i \in 1..Len(t) : t[i] # sep
  THEN <<t>>
  ELSE LET i == CHOOSE k \in 1..Len(t) : t[k] = sep /\ \A j \in 1..(k - 1) : t[j] # sep
       IN  <<SubSeq(t, 1, i - 1)>> \o Split(SubSeq(t, i + 1, Len(t)), sep)

\* the bytes of the text the handler signs (UTF-8 of its characters)
CharCode ==
  [c \in {"-", "1", "2", "7", "8", ":", ";", "a", "b", "d", "e", "i", "k", "q",
          "r", "s", "t", "u", "w", " "} |->
     CASE c = "-" -> 45  [] c = "1" -> 49  [] c = "2" -> 50  [] c = "7" -> 55
       [] c = "8" -> 56  [] c = ":" -> 58  [] c = ";" -> 59  [] c = "a" -> 97
       [] c = "b" -> 98  [] c = "d" -> 100 [] c = "e" -> 101 [] c = "i" -> 105
       [] c = "k" -> 107 [] c = "q" -> 113 [] c = "r" -> 114 [] c = "s" -> 115
       [] c = "t" -> 116 [] c = "u" -> 117 [] c = "w" -> 119 [] c = " " -> 32]

Bytes(t) == [i \in 1..Len(t) |-> CharCode[t[i]]]

HexDigits == <<"0", "1", "2", "3", "4", "5", "6", "7", "8", "9", "a", "b", "c", "d", "e", "f">>

HexUpper == <<"0", "1", "2", "3", "4", "5", "6", "7", "8", "9", "A", "B", "C", "D", "E", "F">>

\* the value of a hexadecimal digit of either case, -1 for any other character
HexValue(c) ==
  IF \E v \in 1..16 : HexDigits[v] = c \/ HexUpper[v] = c
  THEN (CHOOSE v \in 1..16 : HexDigits[v] = c \/ HexUpper[v] = c) - 1
  ELSE -1

\* .digest('hex'): two lower-case digits per byte
RECURSIVE DigestHex(_)
DigestHex(bytes) ==
  IF bytes = <<>> THEN <<>>
  ELSE <<HexDigits[(Head(bytes) \div 16) + 1], HexDigits[(Head(bytes) % 16) + 1]>>
         \o DigestHex(Tail(bytes))

\* Buffer.from(text, 'hex'): one byte per pair of hexadecimal digits, up to
\* the first pair that is not one
RECURSIVE BufferFromHex(_)
BufferFromHex(t) ==
  IF Len(t) < 2 \/ HexValue(t[1]) < 0 \/ HexValue(t[2]) < 0 THEN <<>>
  ELSE <<HexValue(t[1]) * 16 + HexValue(t[2])>> \o BufferFromHex(SubSeq(t, 3, Len(t)))

\* crypto.createHmac('sha256', secret).update(manifest): the code is an ideal
\* one, a different code for every different pair of secret and message
Hmac(secret, message) == Bytes(secret) \o <<0>> \o Bytes(message)

\* 151-164
RECURSIVE ParseParts(_, _)
ParseParts(parts, out) ==
  IF parts = <<>> THEN out
  ELSE LET kv == Split(Head(parts), "=")
           k == kv[1]
           v == IF Len(kv) >= 2 THEN kv[2] ELSE Nulo
       IN  IF Falsy(k) \/ Falsy(v)
           THEN ParseParts(Tail(parts), out)
           ELSE ParseParts(Tail(parts),
                  [ts |-> IF Trim(k) = <<"t", "s">> THEN Trim(v) ELSE out.ts,
                   v1 |-> IF Trim(k) = <<"v", "1">> THEN Trim(v) ELSE out.v1])

parseXSignature(raw) ==
  IF Falsy(raw) THEN [ts |-> Nulo, v1 |-> Nulo]
  ELSE ParseParts(Split(raw, ","), [ts |-> Nulo, v1 |-> Nulo])

\* 166-169: a header of the request, null when it was not sent
getHeader(req, name) == req.headers[name]

\* 186: `id:${id};request-id:${requestId};ts:${ts};`
manifestSemTs(id, requestId, ts) ==
  <<"i", "d", ":">> \o Trim(id)
    \o <<";", "r", "e", "q", "u", "e", "s", "t", "-", "i", "d", ":">> \o Trim(requestId)
    \o <<";">>

manifest(id, requestId, ts) ==
  <<"i", "d", ":">> \o Trim(id)
    \o <<";", "r", "e", "q", "u", "e", "s", "t", "-", "i", "d", ":">> \o Trim(requestId)
    \o <<";", "t", "s", ":">> \o Trim(ts) \o <<";">>

\* 172-199; secret is MP_WEBHOOK_SECRET
validateMpWebhookIdPrimeiro(req, secret) ==
  IF Falsy(secret) THEN [ok |-> TRUE, reason |-> "disabled"]
  ELSE
    LET signature == getHeader(req, "x-signature")
        requestId == getHeader(req, "x-request-id")
        sig == parseXSignature(signature)
        id == Ou(req.query["id"], req.query["data.id"])
    IN  IF Falsy(id) THEN [ok |-> FALSE, reason |-> "missing_id"]
        ELSE IF Falsy(signature) THEN [ok |-> FALSE, reason |-> "missing_signature"]
        ELSE IF Falsy(requestId) THEN [ok |-> FALSE, reason |-> "missing_request_id"]
        ELSE IF Falsy(sig.ts) \/ Falsy(sig.v1)
        THEN [ok |-> FALSE, reason |-> "bad_signature_format"]
        ELSE
          LET expected == BufferFromHex(DigestHex(Hmac(secret, manifest(id, requestId, sig.ts))))
              received == BufferFromHex(Trim(sig.v1))
          IN  IF Len(expected) # Len(received)
              THEN [ok |-> FALSE, reason |-> "invalid_signature"]
              ELSE IF expected = received THEN [ok |-> TRUE, reason |-> "ok"]
              ELSE [ok |-> FALSE, reason |-> "invalid_signature"]

validateMpWebhook(req, secret) ==
  IF Falsy(secret) THEN [ok |-> TRUE, reason |-> "disabled"]
  ELSE
    LET signature == getHeader(req, "x-signature")
        requestId == getHeader(req, "x-request-id")
        sig == parseXSignature(signature)
        id == Ou(req.query["id"], req.query["data.id"])
    IN  IF Falsy(signature) THEN [ok |-> FALSE, reason |-> "missing_signature"]
        ELSE IF Falsy(requestId) THEN [ok |-> FALSE, reason |-> "missing_request_id"]
        ELSE IF Falsy(sig.ts) \/ Falsy(sig.v1)
        THEN [ok |-> FALSE, reason |-> "bad_signature_format"]
        ELSE IF Falsy(id) THEN [ok |-> FALSE, reason |-> "missing_id"]
        ELSE
          LET expected == BufferFromHex(DigestHex(Hmac(secret, manifest(id, requestId, sig.ts))))
              received == BufferFromHex(Trim(sig.v1))
          IN  IF Len(expected) # Len(received)
              THEN [ok |-> FALSE, reason |-> "invalid_signature"]
              ELSE IF expected = received THEN [ok |-> TRUE, reason |-> "ok"]
              ELSE [ok |-> FALSE, reason |-> "invalid_signature"]

\* ------------------------------------------- POST /notificacao-pagamento
\* 951: const topic = req.query.topic || req.query.type
TopicDe(qTopic, qType) == IF qTopic # NULL THEN qTopic ELSE qType

\* the checks in another order, and without the signature check
TriagemAssinaturaPrimeiro(topic, sigOk, paymentIdCandidate) ==
  IF ~sigOk THEN "sig_invalid"
  ELSE IF topic # "payment" THEN "ignored"
  ELSE IF paymentIdCandidate = NULL THEN "no_id"
  ELSE "lookup"

TriagemSemAssinatura(topic, sigOk, paymentIdCandidate) ==
  IF topic # "payment" THEN "ignored"
  ELSE IF paymentIdCandidate = NULL THEN "no_id"
  ELSE "lookup"

\* 954-982: what happens to the request before the first await: the topic
\* filter (954-961), the signature check (963-972), the id check (982)
Triagem(topic, sigOk, paymentIdCandidate) ==
  IF topic # "payment" THEN "ignored"
  ELSE IF ~sigOk THEN "sig_invalid"
  ELSE IF paymentIdCandidate = NULL THEN "no_id"
  ELSE "lookup"

\* 950-982: what the handler makes of a request before its first await:
\* its topic, what validateMpWebhook makes of its headers and query (sigOk;
\* it is called for the payment topic only), the id it will look up, and the
\* answer if there is one already
Chegada(topic, sigOk, paymentIdCandidate) ==
  LET fim == Triagem(topic, sigOk, paymentIdCandidate)
  IN  [ topic |-> topic, sigOk |-> sigOk, fim |-> fim,
        paymentId |-> IF fim = "lookup" THEN paymentIdCandidate ELSE NULL,
        resp |-> CASE fim = "ignored" -> 200
                   [] fim = "sig_invalid" -> 401
                   [] fim = "no_id" -> 200
                   [] fim = "lookup" -> 0 ]

\* the requests the environment sends, by what the handler makes of them
Chegadas ==
  { Chegada(TopicDe(qTopic, qType), sigOk, id) :
      qTopic \in Topics \cup {NULL}, qType \in Types \cup {NULL},
      sigOk \in BOOLEAN, id \in PaymentIds \cup {NULL} }

\* 950-982: the request arrives.  concorrente and cancelados record what the
\* request found on arrival: whether another payment webhook was in flight,
\* and the cancelled orders.
MpChega(h) ==
  /\ mp[h].pc = "idle"
  /\ \A g \in MpHooks : g < h => mp[g].pc # "idle"
  /\ \E c \in Chegadas :
       mp' = [mp EXCEPT ![h] =
               [@ EXCEPT !.topic = c.topic, !.sigOk = c.sigOk,
                         !.paymentId = c.paymentId, !.resp = c.resp,
                         !.pc = IF c.fim = "lookup" THEN "lookup" ELSE "done",
                         !.fim = IF c.fim = "lookup" THEN "none" ELSE c.fim,
                         !.concorrente = (MpEmVoo # {}),
                         !.cancelados = {o \in Pedidos : pedidos[o].status = CANCELADO}]]
  /\ UNCHANGED <<pedidos, now, ticks, cron, me, enviados, carrinho, gravacoes, trilha, webhook, loja>>

\* a classification that takes a payment under review for a paid one
IsApprovedOuEmAnalise(status) == status \in {"approved", "in_process"}

\* 998: const isApproved = payment.status === 'approved'
IsApproved(status) == status = "approved"

\* 999: const novoStatus = isApproved ? 'EM_PRODUCAO' : 'PAGAMENTO_PENDENTE'
novoStatus(isApproved) == IF isApproved THEN EM_PRODUCAO ELSE PENDENTE

\* 984-990, 998-999: new Payment(client).get resolves, with a payment in one
\* of statuses, or throws
MpLookupDe(h, statuses) ==
  /\ mp[h].pc = "lookup"
  /\ \/ MpCatch(h, "erro_gateway")
     \/ MpResponde(h, 200, "no_ref")
     \/ \E st \in statuses, ref \in 1..(NumPedidos + 1) :
          mp' = [mp EXCEPT ![h].pc = "select", ![h].pedidoId = ref,
                           ![h].paymentStatus = st,
                           ![h].isApproved = IsApproved(st)]
  /\ UNCHANGED <<pedidos, now, ticks, cron, me, enviados, carrinho, gravacoes, trilha, webhook, loja>>

MpLookup(h) == MpLookupDe(h, PaymentStatuses)


\* 991-997: SELECT * FROM pedidos WHERE id = ?; pedidoDoBanco keeps the
\* status that was read (the no-op log lines 1022-1026, 1044-1048 print it)
MpSelect(h) ==
  /\ mp[h].pc = "select"
  /\ \/ MpCatch(h, "erro_db")
     \/ /\ SelectPorId(mp[h].pedidoId) = {}
        /\ MpResponde(h, 200, "no_order")
     \/ /\ SelectPorId(mp[h].pedidoId) # {}
        /\ mp' = [mp EXCEPT ![h].pc = "update",
                            ![h].pedidoDoBanco = pedidos[mp[h].pedidoId].status]
  /\ UNCHANGED <<pedidos, now, ticks, cron, me, enviados, carrinho, gravacoes, trilha, webhook, loja>>

\* 1013-1019: the approved UPDATE, one statement
UpdateAprovado(h) ==
  [o \in Pedidos |->
     IF o \in AfetadosAprovado(mp[h].pedidoId)
     THEN [pedidos[o] EXCEPT !.status = novoStatus(mp[h].isApproved),
                             !.mercado_pago_id = mp[h].paymentId,
                             !.metodo_pagamento = MetodoPagamento(PaymentKind(mp[h].paymentId)),
                             !.final_cartao = PaymentKind(mp[h].paymentId).card]
     ELSE pedidos[o]]

\* an UPDATE to pending that stores the payment's method and card as well
UpdatePendenteComMetodo(h) ==
  [o \in Pedidos |->
     IF o \in AfetadosPendente(mp[h].pedidoId)
     THEN [pedidos[o] EXCEPT !.status = novoStatus(mp[h].isApproved),
                             !.mercado_pago_id = mp[h].paymentId,
                             !.metodo_pagamento = MetodoPagamento(PaymentKind(mp[h].paymentId)),
                             !.final_cartao = PaymentKind(mp[h].paymentId).card]
     ELSE pedidos[o]]

\* 1038-1041: the pending UPDATE, one statement
UpdatePendente(h) ==
  [o \in Pedidos |->
     IF o \in AfetadosPendente(mp[h].pedidoId)
     THEN [pedidos[o] EXCEPT !.status = novoStatus(mp[h].isApproved),
                             !.mercado_pago_id = mp[h].paymentId]
     ELSE pedidos[o]]

\* a handler that decides by the status it read before its UPDATE
SemLinhaAfetadaPeloLido(h, n) == mp[h].pedidoDoBanco \notin PredecessoresAprovado

\* 1021, 1043: upd.affectedRows === 0
SemLinhaAfetada(h, n) == n = 0

\* 1001-1055: the conditional UPDATE and the branch on affectedRows
MpUpdate(h) ==
  /\ mp[h].pc = "update"
  /\ \/ /\ MpCatch(h, "erro_db")
        /\ UNCHANGED <<pedidos, trilha>>
     \/ /\ mp[h].isApproved
        /\ pedidos' = UpdateAprovado(h)
        /\ trilha' = Trilhar(pedidos, pedidos')
        /\ LET n == Cardinality(AfetadosAprovado(mp[h].pedidoId))
           IN  mp' = [mp EXCEPT ![h] =
                       IF SemLinhaAfetada(h, n)
                       THEN [@ EXCEPT !.pc = "done", !.resp = 200, !.fim = "noop",
                                      !.paymentStatus = NULL, !.affectedRows = n]
                       ELSE [@ EXCEPT !.pc = "reselect", !.affectedRows = n]]
     \/ /\ ~mp[h].isApproved
        /\ pedidos' = UpdatePendente(h)
        /\ trilha' = Trilhar(pedidos, pedidos')
        /\ LET n == Cardinality(AfetadosPendente(mp[h].pedidoId))
           IN  mp' = [mp EXCEPT ![h] =
                       IF SemLinhaAfetada(h, n)
                       THEN [@ EXCEPT !.pc = "done", !.resp = 200, !.fim = "noop",
                                      !.paymentStatus = NULL, !.affectedRows = n]
                       ELSE [@ EXCEPT !.pc = "done", !.resp = 200, !.fim = "pendente",
                                      !.paymentStatus = NULL, !.affectedRows = n]]
  /\ UNCHANGED <<now, ticks, cron, me, enviados, carrinho, gravacoes, webhook, loja>>

\* a handler that hands on the order without the payment it has just written
MpReselectSemPagamento(h) ==
  /\ mp[h].pc = "reselect"
  /\ mp' = [mp EXCEPT ![h].pc = "email"]
  /\ UNCHANGED <<pedidos, now, ticks, cron, me, enviados, carrinho, gravacoes, trilha, webhook, loja>>

\* 1032-1033: the order is read again
MpReselect(h) ==
  /\ mp[h].pc = "reselect"
  /\ \/ MpCatch(h, "erro_db")
     \/ mp' = [mp EXCEPT ![h].pc = "email",
                         ![h].pedidoAtualizado = pedidos[mp[h].pedidoId].mercado_pago_id]
  /\ UNCHANGED <<pedidos, now, ticks, cron, me, enviados, carrinho, gravacoes, trilha, webhook, loja>>

\* ---------------------------------------------------------------- sendEmail
\* what the provider does with one attempt: it accepts the e-mail, answers
\* with an error (its status, and whether its message says 'not verified'),
\* or the call throws
Desfechos ==
  { [tipo |-> "ok", statusCode |-> 200, notVerified |-> FALSE],
    [tipo |-> "error", statusCode |-> 403, notVerified |-> TRUE],
    [tipo |-> "error", statusCode |-> 403, notVerified |-> FALSE],
    [tipo |-> "error", statusCode |-> 422, notVerified |-> TRUE],
    [tipo |-> "error", statusCode |-> 500, notVerified |-> FALSE],
    [tipo |-> "throw", statusCode |-> 0, notVerified |-> FALSE] }

\* the environment: MAIL_PROVIDER, the Resend key, EMAIL_FROM_PRIMARY,
\* EMAIL_FROM, the Gmail transporter
Configs ==
  [ provider : {"resend", "auto", "gmail", "sms"}, resend : BOOLEAN,
    primaryFrom : BOOLEAN, compatFrom : BOOLEAN, gmail : BOOLEAN ]

\* a check that takes every 403 for an unverified sender
isErro403(error) == error.statusCode = 403

\* 501-505: status === 403 && msg.includes('not verified')
isDomainNotVerified403(error) == error.statusCode = 403 /\ error.notVerified

\* a call without its catch block
ResendSemCatch(r) == r

\* 570-573: catch (err) returns { ok: false, reason: 'exception' }
ResendCatch(r) ==
  IF r.lancou THEN [r EXCEPT !.reason = "exception", !.lancou = FALSE] ELSE r

\* 507-574: the senders tried, in order (trySend, 520-530), and the result;
\* d1 and d2 are what the provider does with the first and the second attempt
sendEmailViaResend(cfg, d1, d2) ==
  LET Fim(ok, reason, froms, lancou) ==
        [ok |-> ok, reason |-> reason, provider |-> "resend", froms |-> froms,
         lancou |-> lancou]
      trySend(d, froms) ==
        CASE d.tipo = "throw" -> Fim(FALSE, "throw", froms, TRUE)
          [] d.tipo = "ok" -> Fim(TRUE, "ok", froms, FALSE)
          [] d.tipo = "error" -> Fim(FALSE, "resend_error", froms, FALSE)
  IN  IF ~cfg.resend THEN Fim(FALSE, "missing_resend_key", <<>>, FALSE)
      ELSE ResendCatch(
             IF cfg.primaryFrom
             THEN IF d1.tipo = "error" /\ isDomainNotVerified403(d1)
                  THEN trySend(d2, <<"primary", "fallback">>)
                  ELSE trySend(d1, <<"primary">>)
             ELSE IF cfg.compatFrom THEN trySend(d1, <<"compat">>)
             ELSE trySend(d1, <<"fallback">>))

\* 580-611: one sendMail, whose rejection is caught
sendEmailViaGmail(cfg, d) ==
  [ok |-> cfg.gmail /\ d.tipo = "ok",
   reason |-> IF ~cfg.gmail THEN "missing_gmail_config"
              ELSE IF d.tipo = "ok" THEN "ok" ELSE "gmail_error",
   provider |-> "gmail",
   froms |-> IF cfg.gmail THEN <<"gmail">> ELSE <<>>,
   lancou |-> FALSE]

\* 613-629
sendEmail(cfg, d1, d2) ==
  CASE cfg.provider \in {"resend", "auto"} -> sendEmailViaResend(cfg, d1, d2)
    [] cfg.provider = "gmail" -> sendEmailViaGmail(cfg, d1)
    [] OTHER -> [ok |-> FALSE, reason |-> "unknown_provider", provider |-> cfg.provider,
                 froms |-> <<>>, lancou |-> FALSE]

\* how a call of sendEmail can end
Envios == {sendEmail(cfg, d1, d2) : cfg \in Configs, d1 \in Desfechos, d2 \in Desfechos}

\* one call of sendEmail, from its arguments to its result
Enviar ==
  /\ correio.pc = "idle"
  /\ \E cfg \in Configs, d1 \in Desfechos, d2 \in Desfechos :
       correio' = [pc |-> "done", cfg |-> cfg, d1 |-> d1, d2 |-> d2,
                   r |-> sendEmail(cfg, d1, d2)]
  /\ UNCHANGED <<pedidos, now, ticks, mp, cron, me, enviados, carrinho, gravacoes, trilha, webhook,
                 pref, preferencias, rastreio, cep>>

\* 1035, 1160-1178: enviarEmailDeConfirmacao hands the e-mail to sendEmail,
\* which returns a result (613-628: ok, or not ok when the provider failed or
\* threw); the result is only logged (1170-1177) and the handler goes on;
\* emailOk is that result, a local of enviarEmailDeConfirmacao; an exception
\* out of sendEmail would reach the handler's catch block
MpEmail(h) ==
  /\ mp[h].pc = "email"
  /\ enviados' = [enviados EXCEPT ![mp[h].pedidoId].confirm = @ + 1]
  /\ \E r \in Envios :
       IF r.lancou THEN MpCatch(h, "erro_mail")
       ELSE mp' = [mp EXCEPT ![h].pc = "carrinho",
                             ![h].emailOk = IF r.ok THEN "ok" ELSE "not_ok"]
  /\ UNCHANGED <<pedidos, now, ticks, cron, me, carrinho, gravacoes, trilha, webhook, loja>>

\* 1036, 1221-1302: inserirPedidoNoCarrinhoME posts the cart; fetchJsonSafe
\* throws (non-2xx, timeout, not JSON) or returns a body with or without id
MpCarrinho(h) ==
  /\ mp[h].pc = "carrinho"
  /\ carrinho' = [carrinho EXCEPT ![mp[h].pedidoId] = @ + 1]
  /\ \/ MpCatch(h, "erro_carrier")
     \/ MpResponde(h, 200, "em_producao")
     \/ \E id \in MeIds :
          mp' = [mp EXCEPT ![h].pc = "salvar_me", ![h].emailOk = NULL,
                           ![h].melhorEnvioId = id]
  /\ UNCHANGED <<pedidos, now, ticks, cron, me, enviados, gravacoes, trilha, webhook, loja>>

\* 1303-1309, 1055: UPDATE pedidos SET melhor_envio_id = ? WHERE id = ?
MpSalvarMe(h) ==
  /\ mp[h].pc = "salvar_me"
  /\ \/ /\ MpCatch(h, "erro_db")
        /\ UNCHANGED <<pedidos, gravacoes>>
     \/ /\ pedidos' = [pedidos EXCEPT ![mp[h].pedidoId].melhor_envio_id = mp[h].melhorEnvioId]
        /\ gravacoes' = [gravacoes EXCEPT ![mp[h].pedidoId] = @ + 1]
        /\ MpResponde(h, 200, "em_producao")
  /\ UNCHANGED <<now, ticks, cron, me, enviados, carrinho, trilha, webhook, loja>>

MpNext ==
  \E h \in MpHooks :
    \/ MpChega(h)
    \/ MpLookup(h)
    \/ MpSelect(h)
    \/ MpUpdate(h)
    \/ MpReselect(h)
    \/ MpEmail(h)
    \/ MpCarrinho(h)
    \/ MpSalvarMe(h)

\* A row a pending payment event has already moved to PAGAMENTO_PENDENTE
\* (1038-1041 wrote its status and mercado_pago_id)
PedidoPendente(id) == [NovoPedido EXCEPT !.status = PENDENTE, !.mercado_pago_id = id]

\* The table as a server restart finds it: every order still unpaid, new or
\* already pending
InitMp ==
  /\ pedidos \in [PedidosNoInicio -> {NovoPedido, PedidoPendente("pay1")}]
  /\ now = 0
  /\ ticks = 0
  /\ mp = [h \in MpHooks |-> MpIdle]
  /\ cron = [s \in CronRuns |-> CronIdle]
  /\ me = [t \in MeHooks |-> MeIdle]
  /\ enviados = [o \in PedidosNoInicio |-> [confirm |-> 0, tracking |-> 0, expiry |-> 0]]
  /\ carrinho = [o \in PedidosNoInicio |-> 0]
  /\ gravacoes = [o \in PedidosNoInicio |-> 0]
  /\ trilha = [o \in PedidosNoInicio |->
                 IF pedidos[o].status = PENDENTE THEN <<AGUARDANDO, PENDENTE>>
                 ELSE <<AGUARDANDO>>]
  /\ webhook = SemWebhook
  /\ LojaParada

\* payment webhooks alone: no sweep, no tracking webhook, the clock stands
SpecMp == InitMp /\ [][MpNext]_vars

\* --------------------------------------------- POST /webhook-melhorenvio
MeResponde(t, code) == me' = [me EXCEPT ![t].pc = "done", ![t].resp = code]

\* 1063-1070, 1087-1091: the request arrives with an event out of events and
\* a resource with an id out of ids and a tracking code out of trackings;
\* events other than 'tracking' are acknowledged, their resource is not read
MeChegaDe(t, events, ids, trackings) ==
  /\ me[t].pc = "idle"
  /\ \A u \in MeHooks : u < t => me[u].pc # "idle"
  /\ \E event \in events, id \in ids, tracking \in trackings :
       me' = [me EXCEPT ![t] =
               IF event # "tracking"
               THEN [@ EXCEPT !.pc = "done", !.event = event, !.resp = 200]
               ELSE [@ EXCEPT !.pc = "select", !.event = event, !.id = id,
                              !.tracking = tracking]]
  /\ UNCHANGED <<pedidos, now, ticks, mp, cron, enviados, carrinho, gravacoes, trilha, webhook, loja>>

\* the carrier: a tracking event or another one, for a shipment it knows
DaTransportadora ==
  [ events |-> {"tracking", "order"},
    ids |-> MeIds \cup {NULL},
    trackings |-> TrackingCodes \cup {NULL} ]

MeChega(t) ==
  MeChegaDe(t, DaTransportadora.events, DaTransportadora.ids, DaTransportadora.trackings)

\* SELECT * FROM pedidos WHERE melhor_envio_id = ?  (no row equals NULL)
SelectPorMelhorEnvioId(id) ==
  {o \in Pedidos : id # NULL /\ pedidos[o].melhor_envio_id = id}

\* 1073: rows.length > 0 && tracking
TemPedidoERastreio(t) ==
  SelectPorMelhorEnvioId(me[t].id) # {} /\ me[t].tracking \notin {NULL, ""}

\* 1071-1074, 1081-1091: the order is looked up by its carrier shipment id
MeSelect(t) ==
  /\ me[t].pc = "select"
  /\ \/ MeResponde(t, 500)
     \/ /\ TemPedidoERastreio(t)
        /\ \E o \in SelectPorMelhorEnvioId(me[t].id) :
             me' = [me EXCEPT ![t].pc = "update", ![t].pedidoId = o]
     \/ /\ ~TemPedidoERastreio(t)
        /\ MeResponde(t, 200)
  /\ UNCHANGED <<pedidos, now, ticks, mp, cron, enviados, carrinho, gravacoes, trilha, webhook, loja>>

\* an UPDATE that stores the tracking code and leaves the status
UpdateEnviadoSoCodigo(t) ==
  [o \in Pedidos |->
     IF o = me[t].pedidoId
     THEN [pedidos[o] EXCEPT !.codigo_rastreio = me[t].tracking]
     ELSE pedidos[o]]

\* an UPDATE that also forgets the carrier shipment id
UpdateEnviadoSemEnvio(t) ==
  [o \in Pedidos |->
     IF o = me[t].pedidoId
     THEN [pedidos[o] EXCEPT !.codigo_rastreio = me[t].tracking, !.status = ENVIADO,
                             !.melhor_envio_id = NULL]
     ELSE pedidos[o]]

\* 1076: UPDATE pedidos SET codigo_rastreio = ?, status = 'ENVIADO' WHERE id = ?
UpdateEnviado(t) ==
  [o \in Pedidos |->
     IF o = me[t].pedidoId
     THEN [pedidos[o] EXCEPT !.codigo_rastreio = me[t].tracking, !.status = ENVIADO]
     ELSE pedidos[o]]

MeUpdate(t) ==
  /\ me[t].pc = "update"
  /\ \/ /\ MeResponde(t, 500)
        /\ UNCHANGED <<pedidos, trilha>>
     \/ /\ pedidos' = UpdateEnviado(t)
        /\ trilha' = Trilhar(pedidos, pedidos')
        /\ me' = [me EXCEPT ![t].pc = "email"]
  /\ UNCHANGED <<now, ticks, mp, cron, enviados, carrinho, gravacoes, webhook, loja>>

\* 1080, 1091, 1180-1198: enviarEmailComRastreio, then the answer; an
\* exception out of sendEmail would reach the catch block (1087-1090)
MeEmail(t) ==
  /\ me[t].pc = "email"
  /\ enviados' = [enviados EXCEPT ![me[t].pedidoId].tracking = @ + 1]
  /\ \E r \in Envios : MeResponde(t, IF r.lancou THEN 500 ELSE 200)
  /\ UNCHANGED <<pedidos, now, ticks, mp, cron, carrinho, gravacoes, trilha, webhook, loja>>

MeNext ==
  \E t \in MeHooks :
    \/ MeChega(t)
    \/ MeSelect(t)
    \/ MeUpdate(t)
    \/ MeEmail(t)

\* ------------------------------------------ GET /checar-pedidos-expirados
CronResponde(s, code) == cron' = [cron EXCEPT ![s].pc = "done", ![s].resp = code]

\* 1101: const token = req.query.token || req.headers['x-cron-token']
TokenDe(qToken, hToken) == IF qToken # NULL THEN qToken ELSE hToken

\* a check that lets a request without a token through
AutorizadoSemToken(secret, token) == secret = NULL \/ token = secret \/ token = NULL

\* 1100-1106: no secret configured, or the token is the secret
Autorizado(secret, token) == secret = NULL \/ token = secret

\* 1099-1108: the request arrives at a server configured with one of secrets
\* and carries tokens (query, header) out of tokens; CRON_SECRET and token
\* record the configuration and the token it was checked with
CronChegaDe(s, secrets, tokens) ==
  /\ cron[s].pc = "idle"
  /\ \A r \in CronRuns : r < s => cron[r].pc # "idle"
  /\ \E secret \in secrets, qToken \in tokens, hToken \in tokens :
       LET token == TokenDe(qToken, hToken)
       IN  cron' = [cron EXCEPT ![s] =
                     IF Autorizado(secret, token)
                     THEN [@ EXCEPT !.pc = "select", !.CRON_SECRET = secret, !.token = token]
                     ELSE [@ EXCEPT !.pc = "done", !.resp = 401,
                                    !.CRON_SECRET = secret, !.token = token]]
  /\ UNCHANGED <<pedidos, now, ticks, mp, me, enviados, carrinho, gravacoes, trilha, webhook, loja>>

\* the scheduler of a deployment with a secret: it sends the secret, or nothing
DoAgendador == [secrets |-> {"s3cr3t"}, tokens |-> {NULL, "s3cr3t"}]

CronChega(s) == CronChegaDe(s, DoAgendador.secrets, DoAgendador.tokens)

\* a SELECT that takes the order whose deadline is this very minute
PedidosExpiradosAteAgora ==
  {o \in Pedidos : /\ pedidos[o].status \in {AGUARDANDO, PENDENTE}
                   /\ pedidos[o].expiracao_pix <= now}

\* a SELECT that leaves the pending orders out
PedidosExpiradosSoAguardando ==
  {o \in Pedidos : /\ pedidos[o].status \in {AGUARDANDO}
                   /\ pedidos[o].expiracao_pix < now}

\* 1111-1113: WHERE status IN ('AGUARDANDO_PAGAMENTO','PAGAMENTO_PENDENTE')
\*            AND expiracao_pix < NOW()
PedidosExpirados ==
  {o \in Pedidos : /\ pedidos[o].status \in {AGUARDANDO, PENDENTE}
                   /\ pedidos[o].expiracao_pix < now}

\* the sequences that list every element of S once: the SELECT has no ORDER BY
Ordens(S) ==
  {f \in [1..Cardinality(S) -> S] : \A i, j \in 1..Cardinality(S) : i # j => f[i] # f[j]}

\* 1111-1115, 1121-1122: the expired orders are selected
CronSelect(s) ==
  /\ cron[s].pc = "select"
  /\ \/ CronResponde(s, 500)
     \/ /\ PedidosExpirados = {}
        /\ cron' = [cron EXCEPT ![s].pc = "done", ![s].resp = 200]
     \/ /\ PedidosExpirados # {}
        /\ \E f \in Ordens(PedidosExpirados) :
             cron' = [cron EXCEPT ![s].pc = "update", ![s].fila = f, ![s].n = Len(f)]
  /\ UNCHANGED <<pedidos, now, ticks, mp, me, enviados, carrinho, gravacoes, trilha, webhook, loja>>

\* the rows the sweep's UPDATE matches: WHERE id = ?  (1116)
AfetadosCron(id) == {o \in Pedidos : o = id}

\* 1116: UPDATE pedidos SET status = 'CANCELADO_POR_EXPIRACAO' WHERE id = ?
UpdateCancelado(s) ==
  [o \in Pedidos |->
     IF o \in AfetadosCron(Head(cron[s].fila))
     THEN [pedidos[o] EXCEPT !.status = CANCELADO]
     ELSE pedidos[o]]

CronUpdate(s) ==
  /\ cron[s].pc = "update"
  /\ \/ /\ cron' = [cron EXCEPT ![s].pc = "done", ![s].resp = 500, ![s].fila = <<>>,
                             ![s].emailOk = NULL]
        /\ UNCHANGED <<pedidos, trilha>>
     \/ /\ pedidos' = UpdateCancelado(s)
        /\ trilha' = Trilhar(pedidos, pedidos')
        /\ cron' = [cron EXCEPT ![s].pc = "email", ![s].emailOk = NULL]
  /\ UNCHANGED <<now, ticks, mp, me, enviados, carrinho, gravacoes, webhook, loja>>

\* 1117-1122, 1200-1218: enviarEmailDeExpiracao, then the next order or the
\* answer; emailOk is the result of sendEmail, which is only logged; an
\* exception out of sendEmail would reach the catch block (1123-1126)
CronEmail(s) ==
  /\ cron[s].pc = "email"
  /\ enviados' = [enviados EXCEPT ![Head(cron[s].fila)].expiry = @ + 1]
  /\ \E r \in Envios :
       cron' = [cron EXCEPT ![s] =
                 IF r.lancou
                 THEN [@ EXCEPT !.pc = "done", !.resp = 500, !.fila = <<>>]
                 ELSE IF Tail(@.fila) = <<>>
                 THEN [@ EXCEPT !.pc = "done", !.resp = 200, !.fila = <<>>]
                 ELSE [@ EXCEPT !.pc = "update", !.fila = Tail(@),
                                !.emailOk = IF r.ok THEN "ok" ELSE "not_ok"]]
  /\ UNCHANGED <<pedidos, now, ticks, mp, me, carrinho, gravacoes, trilha, webhook, loja>>

CronNext ==
  \E s \in CronRuns :
    \/ CronChega(s)
    \/ CronSelect(s)
    \/ CronUpdate(s)
    \/ CronEmail(s)

\* ---------------------------------------------------- the sweep on its own
\* An order in each status, as the handlers leave it: pending after a pending
\* event (1038-1041), in production after an approval and its booking
\* (1013-1019, 1304), shipped after a tracking event (1076), cancelled after a
\* sweep (1116)
PedidoNoStatus(st) ==
  CASE st = AGUARDANDO -> NovoPedido
    [] st = PENDENTE -> PedidoPendente("pay1")
    [] st = EM_PRODUCAO ->
         [NovoPedido EXCEPT !.status = EM_PRODUCAO, !.mercado_pago_id = "pay1",
            !.metodo_pagamento = MetodoPagamento(PaymentKind("pay1")),
            !.final_cartao = PaymentKind("pay1").card, !.melhor_envio_id = "me1"]
    [] st = ENVIADO ->
         [NovoPedido EXCEPT !.status = ENVIADO, !.mercado_pago_id = "pay1",
            !.metodo_pagamento = MetodoPagamento(PaymentKind("pay1")),
            !.final_cartao = PaymentKind("pay1").card, !.melhor_envio_id = "me1",
            !.codigo_rastreio = "BR123"]
    [] st = CANCELADO -> [NovoPedido EXCEPT !.status = CANCELADO]

\* the statuses that order has had
Historico(st) ==
  CASE st = AGUARDANDO -> <<AGUARDANDO>>
    [] st = PENDENTE -> <<AGUARDANDO, PENDENTE>>
    [] st = EM_PRODUCAO -> <<AGUARDANDO, EM_PRODUCAO>>
    [] st = ENVIADO -> <<AGUARDANDO, EM_PRODUCAO, ENVIADO>>
    [] st = CANCELADO -> <<AGUARDANDO, CANCELADO>>

\* the e-mails that order has been sent
EnviadosNoStatus(st) ==
  [ confirm |-> IF st \in {EM_PRODUCAO, ENVIADO} THEN 1 ELSE 0,
    tracking |-> IF st = ENVIADO THEN 1 ELSE 0,
    expiry |-> IF st = CANCELADO THEN 1 ELSE 0 ]

\* the sweep finds orders created at minute 0 in any status, just before, at
\* and just after their deadline (a cancelled order is past its deadline)
InitCron ==
  /\ now \in {EXPIRACAO_MINUTOS - 1, EXPIRACAO_MINUTOS, EXPIRACAO_MINUTOS + 1}
  /\ \E st \in [PedidosNoInicio -> {AGUARDANDO, PENDENTE, EM_PRODUCAO, ENVIADO, CANCELADO}] :
       /\ \A o \in PedidosNoInicio : st[o] = CANCELADO => NovoPedido.expiracao_pix < now
       /\ pedidos = [o \in PedidosNoInicio |-> PedidoNoStatus(st[o])]
       /\ trilha = [o \in PedidosNoInicio |-> Historico(st[o])]
       /\ enviados = [o \in PedidosNoInicio |-> EnviadosNoStatus(st[o])]
       /\ carrinho = [o \in PedidosNoInicio |-> IF st[o] \in {EM_PRODUCAO, ENVIADO} THEN 1 ELSE 0]
       /\ gravacoes = [o \in PedidosNoInicio |-> IF st[o] \in {EM_PRODUCAO, ENVIADO} THEN 1 ELSE 0]
  /\ ticks = 0
  /\ mp = [h \in MpHooks |-> MpIdle]
  /\ cron = [s \in CronRuns |-> CronIdle]
  /\ me = [t \in MeHooks |-> MeIdle]
  /\ webhook = SemWebhook
  /\ LojaParada

\* any scheduler, and anybody else, at a deployment with or without a secret
DeQualquerAgendador ==
  [secrets |-> {NULL, "s3cr3t"}, tokens |-> {NULL, "s3cr3t", "outro"}]

CronChegaLivre(s) ==
  CronChegaDe(s, DeQualquerAgendador.secrets, DeQualquerAgendador.tokens)

CronNextLivre ==
  \E s \in CronRuns :
    \/ CronChegaLivre(s)
    \/ CronSelect(s)
    \/ CronUpdate(s)
    \/ CronEmail(s)

SpecCron == InitCron /\ [][CronNextLivre]_vars

\* ------------------------------------------ the tracking webhook on its own
\* anybody: other events, shipments no order has, tracking codes left empty
DeQualquerUm ==
  [ events |-> {"tracking", "order"},
    ids |-> MeIds \cup {"me9", NULL},
    trackings |-> TrackingCodes \cup {"", NULL} ]

MeChegaLivre(t) ==
  MeChegaDe(t, DeQualquerUm.events, DeQualquerUm.ids, DeQualquerUm.trackings)

MeNextLivre ==
  \E t \in MeHooks :
    \/ MeChegaLivre(t)
    \/ MeSelect(t)
    \/ MeUpdate(t)
    \/ MeEmail(t)

\* the table in any state, tracking webhooks alone
SpecMe == InitCron /\ [][MeNextLivre]_vars

\* ---------------------------------- payment webhooks on a table in any state
\* the gateway reports any status
MpLookupLivre(h) == MpLookupDe(h, TodosOsStatus)

MpNextLivre ==
  \E h \in MpHooks :
    \/ MpChega(h)
    \/ MpLookupLivre(h)
    \/ MpSelect(h)
    \/ MpUpdate(h)
    \/ MpReselect(h)
    \/ MpEmail(h)
    \/ MpCarrinho(h)
    \/ MpSalvarMe(h)

SpecMpLivre == InitCron /\ [][MpNextLivre]_vars

\* ------------------------------------------------ POST /criar-preferencia
\* A value of a JSON body: tipo is its typeof ("undefined" for a property that
\* is not there, "null", "number", "string", "array", "object")
Js(tipo, valor) == [tipo |-> tipo, valor |-> valor]

\* !v: undefined, null, 0 and '' are falsy, arrays and objects are not
Nao(v) ==
  \/ v.tipo \in {"undefined", "null"}
  \/ v.tipo = "number" /\ v.valor = 0
  \/ v.tipo = "string" /\ v.valor = <<>>

Algarismos == <<"0", "1", "2", "3", "4", "5", "6", "7", "8", "9">>

\* String(n) of a whole number n >= 0
RECURSIVE Digitos(_)
Digitos(n) ==
  IF n < 10 THEN <<Algarismos[n + 1]>>
  ELSE Digitos(n \div 10) \o <<Algarismos[(n % 10) + 1]>>

\* the number a text of digits stands for, as MySQL reads it into a DECIMAL
RECURSIVE Decimal(_)
Decimal(t) ==
  IF t = <<>> THEN 0
  ELSE 10 * Decimal(SubSeq(t, 1, Len(t) - 1))
         + (CHOOSE d \in 0..9 : Algarismos[d + 1] = t[Len(t)])

\* text.replace(/\D/g, ''): the digits of a text
SoDigitos(t) == SelectSeq(t, LAMBDA c : \E d \in 1..10 : Algarismos[d] = c)

\* 734: items.reduce((sum, item) => sum + item.unit_price * item.quantity, 0)
RECURSIVE Subtotal(_)
Subtotal(itens) ==
  IF itens = <<>> THEN 0
  ELSE Subtotal(SubSeq(itens, 1, Len(itens) - 1))
         + itens[Len(itens)].unit_price * itens[Len(itens)].quantity

\* a total that leaves the shipping cost out
TotalSemFrete(items, shipmentCost) == Subtotal(items.valor)

\* 734, 760: const total = (the sum) + shipmentCost, as the column valor_total
\* takes it.  + adds two numbers, takes null for 0, and appends a text to the
\* digits of the sum
Total(items, shipmentCost) ==
  CASE shipmentCost.tipo = "number" -> Subtotal(items.valor) + shipmentCost.valor
    [] shipmentCost.tipo = "null" -> Subtotal(items.valor)
    [] shipmentCost.tipo = "string" ->
         Decimal(Digitos(Subtotal(items.valor)) \o shipmentCost.valor)

\* a check that does not ask for the shipping option
DadosIncompletosSemOpcao(body) ==
  \/ Nao(body.items)
  \/ Nao(body.customerInfo)
  \/ body.shipmentCost.tipo = "undefined"

\* 729: !items || !customerInfo || !selectedShipping || shipmentCost === undefined
DadosIncompletos(body) ==
  \/ Nao(body.items)
  \/ Nao(body.customerInfo)
  \/ Nao(body.selectedShipping)
  \/ body.shipmentCost.tipo = "undefined"

\* what a storefront can send to the checkout
CorposDeCheckout(itens, clientes, fretes) ==
  { [ items |-> i, customerInfo |-> c, selectedShipping |-> s, shipmentCost |-> f ] :
      i \in itens, c \in clientes, s \in {Js("undefined", 0), Js("object", "SEDEX")}, f \in fretes }

\* a catch block that reports the order as created
PrefCatch201(c) ==
  pref' = [pref EXCEPT ![c].pc = "done", ![c].resp = 201,
                       ![c].json = [error |-> "Erro interno ao processar o pedido."]]

\* 798: res.status(500).json({ error: 'Erro interno ao processar o pedido.' })
PrefCatch(c) ==
  pref' = [pref EXCEPT ![c].pc = "done", ![c].resp = 500,
                       ![c].json = [error |-> "Erro interno ao processar o pedido."]]

\* 718-745: the request arrives; an incomplete body is answered 400; a customer
\* without cpf makes customerInfo.cpf.replace throw; otherwise the total and
\* the deadline are computed and the INSERT is sent
PrefChegaDe(c, corpos) ==
  /\ pref[c].pc = "idle"
  /\ \A b \in 1..MaxCheckouts : b < c => pref[b].pc # "idle"
  /\ \E body \in corpos :
       IF DadosIncompletos(body)
       THEN pref' = [pref EXCEPT ![c].pc = "done", ![c].body = body, ![c].resp = 400,
                                 ![c].json = [error |-> "Dados incompletos para criar a preferencia."]]
       ELSE IF body.customerInfo.valor.cpf = Nulo
       THEN pref' = [pref EXCEPT ![c].pc = "done", ![c].body = body, ![c].resp = 500,
                                 ![c].json = [error |-> "Erro interno ao processar o pedido."]]
       ELSE pref' = [pref EXCEPT ![c].pc = "insert", ![c].body = body,
                                 ![c].total = Total(body.items, body.shipmentCost),
                                 ![c].expiracaoPix = now + EXPIRACAO_MINUTOS]
  /\ UNCHANGED <<pedidos, now, ticks, mp, cron, me, enviados, carrinho, gravacoes, trilha, webhook,
                 preferencias, rastreio, correio, cep>>

\* 737-763: the row the INSERT writes; data_criacao is the database's clock
LinhaInserida(c) ==
  [ NovoPedido EXCEPT
      !.cpf_cliente = SoDigitos(pref[c].body.customerInfo.valor.cpf),
      !.email_cliente = pref[c].body.customerInfo.valor.email,
      !.valor_total = pref[c].total,
      !.data_criacao = now,
      !.expiracao_pix = pref[c].expiracaoPix ]

\* 746-765: the INSERT resolves with insertId, or throws
PrefInsert(c) ==
  /\ pref[c].pc = "insert"
  /\ \/ /\ PrefCatch(c)
        /\ UNCHANGED <<pedidos, enviados, carrinho, gravacoes, trilha>>
     \/ /\ pedidos' = Append(pedidos, LinhaInserida(c))
        /\ enviados' = Append(enviados, [confirm |-> 0, tracking |-> 0, expiry |-> 0])
        /\ carrinho' = Append(carrinho, 0)
        /\ gravacoes' = Append(gravacoes, 0)
        /\ trilha' = Append(trilha, <<AGUARDANDO>>)
        /\ pref' = [pref EXCEPT ![c].pc = "create", ![c].novoPedidoId = Len(pedidos) + 1]
  /\ UNCHANGED <<now, ticks, mp, cron, me, webhook, preferencias, rastreio,
                 correio, cep>>

\* a preference that refers to the order by its position among the sessions
preferenceBodySemPedido(c) ==
  [ external_reference |-> Len(preferencias) + 1,
    notification_url |-> "/notificacao-pagamento",
    expiration_date_to |-> now + EXPIRACAO_MINUTOS ]

\* 770-784: the body of the preference
preferenceBody(c) ==
  [ external_reference |-> pref[c].novoPedidoId,
    notification_url |-> "/notificacao-pagamento",
    expiration_date_to |-> now + EXPIRACAO_MINUTOS ]

\* 786-799: preference.create resolves with the session's id and link, or throws
PrefCreate(c) ==
  /\ pref[c].pc = "create"
  /\ \/ /\ PrefCatch(c)
        /\ UNCHANGED preferencias
     \/ /\ preferencias' = Append(preferencias, preferenceBody(c))
        /\ pref' = [pref EXCEPT ![c].pc = "done", ![c].resp = 201,
                                 ![c].json = [ id |-> Len(preferencias) + 1,
                                               init_point |-> Len(preferencias) + 1,
                                               pedidoId |-> pref[c].novoPedidoId ]]
  /\ UNCHANGED <<pedidos, now, ticks, mp, cron, me, enviados, carrinho, gravacoes, trilha, webhook,
                 rastreio, correio, cep>>

\* ---------------------------------------------------- POST /rastrear-pedido
RastreioResponde(q, code, json) ==
  rastreio' = [rastreio EXCEPT ![q].pc = "done", ![q].resp = code, ![q].json = json]

\* 1312-1320: the request arrives with a cpf out of cpfs and an e-mail out of
\* emails; !cpf || !email is answered 400
RastreioChegaDe(q, cpfs, emails) ==
  /\ rastreio[q].pc = "idle"
  /\ \E cpf \in cpfs, email \in emails :
       IF Falsy(cpf) \/ email = NULL
       THEN rastreio' = [rastreio EXCEPT ![q].pc = "done", ![q].cpf = cpf, ![q].email = email,
                                         ![q].resp = 400,
                                         ![q].json = [error |-> "CPF e e-mail sao obrigatorios."]]
       ELSE rastreio' = [rastreio EXCEPT ![q].pc = "select", ![q].cpf = cpf, ![q].email = email]
  /\ UNCHANGED <<pedidos, now, ticks, mp, cron, me, enviados, carrinho, gravacoes, trilha, webhook,
                 pref, preferencias, correio, cep>>

\* anybody: with or without each field, customers and strangers
Consultas ==
  [ cpfs |-> {Nulo, <<>>, <<"1", "1">>, <<"2", ".", "2">>, <<"3", "3">>},
    emails |-> {NULL, "a@x", "b@x", "c@x"} ]

RastreioChega(q) == RastreioChegaDe(q, Consultas.cpfs, Consultas.emails)

\* a lookup that matches the e-mail alone
SelectPorEmail(cpf, email) == {o \in Pedidos : pedidos[o].email_cliente = email}

\* 1323-1336: WHERE cpf_cliente = ? AND email_cliente = ?, with the digits of cpf
SelectPorCpfEEmail(cpf, email) ==
  {o \in Pedidos : /\ pedidos[o].cpf_cliente = SoDigitos(cpf)
                   /\ pedidos[o].email_cliente = email}

\* 1334-1335: ORDER BY data_criacao DESC LIMIT 1
MaisRecentes(S) ==
  {o \in S : \A p \in S : pedidos[p].data_criacao <= pedidos[o].data_criacao}

\* an answer that tells which field matched no order
NaoEncontradoPorCampo(cpf, email) ==
  IF \A o \in Pedidos : pedidos[o].email_cliente # email
  THEN [error |-> "E-mail nao encontrado."]
  ELSE [error |-> "CPF nao encontrado."]

\* 1340: the body of the 404
NaoEncontrado(cpf, email) ==
  [error |-> "Nenhum pedido encontrado para o CPF e e-mail informados."]

\* 1322-1391: the SELECT, and the answer: 404, the order's snapshot, or 500
RastreioSelect(q) ==
  /\ rastreio[q].pc = "select"
  /\ \/ RastreioResponde(q, 500, [error |-> "Ocorreu um erro interno. Por favor, tente mais tarde."])
     \/ /\ SelectPorCpfEEmail(rastreio[q].cpf, rastreio[q].email) = {}
        /\ RastreioResponde(q, 404, NaoEncontrado(rastreio[q].cpf, rastreio[q].email))
     \/ \E o \in MaisRecentes(SelectPorCpfEEmail(rastreio[q].cpf, rastreio[q].email)) :
          RastreioResponde(q, 200,
            [ id |-> o, status |-> pedidos[o].status,
              codigo_rastreio |-> pedidos[o].codigo_rastreio,
              metodo |-> pedidos[o].metodo_pagamento,
              final_cartao |-> pedidos[o].final_cartao ])
  /\ UNCHANGED <<pedidos, now, ticks, mp, cron, me, enviados, carrinho, gravacoes, trilha, webhook,
                 pref, preferencias, correio, cep>>

RastreioNext ==
  \E q \in 1..MaxConsultas :
    \/ RastreioChega(q)
    \/ RastreioSelect(q)

\* -------------------------------------------- checkout and lookup on their own
\* the table is empty, nobody has come yet
InitVazio ==
  /\ pedidos = <<>>
  /\ now = 0
  /\ ticks = 0
  /\ mp = [h \in MpHooks |-> MpIdle]
  /\ cron = [s \in CronRuns |-> CronIdle]
  /\ me = [t \in MeHooks |-> MeIdle]
  /\ enviados = <<>>
  /\ carrinho = <<>>
  /\ gravacoes = <<>>
  /\ trilha = <<>>
  /\ webhook = SemWebhook
  /\ LojaParada

\* any storefront: bodies with and without each property, the shipping cost
\* as a number, as a text or null, customers without cpf
Corpos ==
    CorposDeCheckout(
      {Js("undefined", 0), Js("array", <<[unit_price |-> 50, quantity |-> 2], [unit_price |-> 30, quantity |-> 1]>>)},
      {Js("undefined", 0), Js("object", [cpf |-> Nulo, email |-> "a@x"])} \cup {Js("object", k) : k \in {[cpf |-> <<"1", ".", "1">>, email |-> "a@x"],
                                     [cpf |-> <<"2", "2">>, email |-> "b@x"]}},
      {Js("undefined", 0), Js("null", 0), Js("number", 20), Js("string", <<"2", "0">>)})

PrefChega(c) == PrefChegaDe(c, Corpos)

PrefNext ==
  \E c \in 1..MaxCheckouts :
    \/ PrefChega(c)
    \/ PrefInsert(c)
    \/ PrefCreate(c)

SpecLoja == InitVazio /\ [][PrefNext \/ RastreioNext]_vars

\* ------------------------------------------------------------------- clock
Tick ==
  /\ ticks < MaxTicks
  /\ \E d \in ClockSteps : now' = now + d
  /\ ticks' = ticks + 1
  /\ UNCHANGED <<pedidos, mp, cron, me, enviados, carrinho, gravacoes, trilha, webhook, loja>>

Next == MpNext \/ MeNext \/ CronNext \/ Tick

Spec == Init /\ [][Next]_vars

\* ------------------------------------------ every operation, from the start
\* a storefront with one customer and one basket, the shipping cost as a
\* number or as a text
CorposDeUm ==
    CorposDeCheckout(
      {Js("array", <<[unit_price |-> 50, quantity |-> 2], [unit_price |-> 30, quantity |-> 1]>>)},
      {Js("object", [cpf |-> <<"1", ".", "1">>, email |-> "a@x"])},
      {Js("number", 20), Js("string", <<"2", "0">>)})

PrefChegaUm(c) == PrefChegaDe(c, CorposDeUm)

\* the customer looks the order up, with the right e-mail or another
ConsultasDeUm == [cpfs |-> {<<"1", "1">>}, emails |-> {"a@x", "b@x"}]

RastreioChegaUm(q) == RastreioChegaDe(q, ConsultasDeUm.cpfs, ConsultasDeUm.emails)

\* the requests that have arrived and are not answered yet
EmVoo ==
  Cardinality({h \in MpHooks : mp[h].pc \notin {"idle", "done"}})
    + Cardinality({s \in CronRuns : cron[s].pc \notin {"idle", "done"}})
    + Cardinality({t \in MeHooks : me[t].pc \notin {"idle", "done"}})
    + Cardinality({c \in 1..MaxCheckouts : pref[c].pc \notin {"idle", "done"}})
    + Cardinality({q \in 1..MaxConsultas : rastreio[q].pc \notin {"idle", "done"}})

\* one checkout and one payment webhook, with the lookup, the tracking
\* webhook, the sweep and the clock; a request arrives when the one before it
\* has been answered
TudoNext ==
  \/ \E c \in {1} :
       \/ EmVoo = 0 /\ PrefChegaUm(c)
       \/ PrefInsert(c)
       \/ PrefCreate(c)
  \/ \E q \in 1..MaxConsultas :
       \/ EmVoo = 0 /\ RastreioChegaUm(q)
       \/ RastreioSelect(q)
  \/ \E h \in {1} :
       \/ EmVoo = 0 /\ MpChega(h)
       \/ MpLookup(h)
       \/ MpSelect(h)
       \/ MpUpdate(h)
       \/ MpReselect(h)
       \/ MpEmail(h)
       \/ MpCarrinho(h)
       \/ MpSalvarMe(h)
  \/ \E t \in MeHooks :
       \/ EmVoo = 0 /\ MeChega(t)
       \/ MeSelect(t)
       \/ MeUpdate(t)
       \/ MeEmail(t)
  \/ \E s \in CronRuns :
       \/ EmVoo = 0 /\ CronChega(s)
       \/ CronSelect(s)
       \/ CronUpdate(s)
       \/ CronEmail(s)
  \/ Tick

\* the table is empty when the server starts
SpecTudo == InitVazio /\ [][TudoNext]_vars

\* ------------------------------------- the signature check on its own
\* What Mercado Pago and anybody else can send.  A signature header is made
\* by a sender that knows a secret and signs an id, a request id and a
\* timestamp; forma says what became of the header on its way.
SegredosDeQuemAssina == {<<"k">>, <<"w">>}

IdsAssinados == {<<"1">>, <<"2">>}

RequestIdsAssinados == {<<"a">>, <<"b">>}

Timestamps == {<<"7">>, <<"8">>}

Formas ==
  {"integra", "maiusculas", "espacos", "invertida", "hash_com_sobra",
   "ts_trocado", "hash_trocado", "hash_cortado",
   "sem_ts", "sem_v1", "sem_igual", "vazia", "ausente"}

Origens ==
  [segredo : SegredosDeQuemAssina, id : IdsAssinados, rid : RequestIdsAssinados,
   ts : Timestamps, forma : Formas]

\* the template the sender signs: id:[id];request-id:[x-request-id];ts:[ts];
Assinado(o) ==
  <<"i", "d", ":">> \o o.id \o <<";", "r", "e", "q", "u", "e", "s", "t", "-", "i", "d", ":">>
    \o o.rid \o <<";", "t", "s", ":">> \o o.ts \o <<";">>

HashAssinado(o) == DigestHex(Hmac(o.segredo, Assinado(o)))

Maiusculas(hex) == [i \in 1..Len(hex) |-> HexUpper[HexValue(hex[i]) + 1]]

OutroTs(ts) == CHOOSE t \in Timestamps : t # ts

\* the x-signature header as it arrives
Cabecalho(o) ==
  LET ts == <<"t", "s", "=">> \o o.ts
      v1 == <<"v", "1", "=">>
      hex == HashAssinado(o)
  IN  CASE o.forma = "integra" -> ts \o <<",">> \o v1 \o hex
        [] o.forma = "maiusculas" -> ts \o <<",">> \o v1 \o Maiusculas(hex)
        [] o.forma = "espacos" ->
             <<"t", "s", " ", "=", " ">> \o o.ts \o <<" ", ",", " ", "v", "1", " ", "=", " ">>
               \o hex \o <<" ">>
        [] o.forma = "invertida" -> v1 \o hex \o <<",">> \o ts
        [] o.forma = "hash_com_sobra" -> ts \o <<",">> \o v1 \o hex \o <<"z", "z">>
        [] o.forma = "ts_trocado" -> <<"t", "s", "=">> \o OutroTs(o.ts) \o <<",">> \o v1 \o hex
        [] o.forma = "hash_trocado" ->
             ts \o <<",">> \o v1 \o <<IF hex[1] = "0" THEN "1" ELSE "0">> \o Tail(hex)
        [] o.forma = "hash_cortado" -> ts \o <<",">> \o v1 \o SubSeq(hex, 1, Len(hex) - 2)
        [] o.forma = "sem_ts" -> v1 \o hex
        [] o.forma = "sem_v1" -> ts
        [] o.forma = "sem_igual" -> <<"t", "s">> \o o.ts \o <<",">> \o <<"v", "1">> \o hex
        [] o.forma = "vazia" -> <<>>
        [] o.forma = "ausente" -> Nulo

\* the requests that reach the signature check, and the secret of the server
WebhooksRecebidos ==
  { [ pc |-> "in", origem |-> o,
      req |-> [ headers |-> ("x-signature" :> Cabecalho(o)) @@ ("x-request-id" :> rid),
                query |-> ("id" :> id) @@ ("data.id" :> dataId) ],
      MP_WEBHOOK_SECRET |-> secret,
      sig |-> [ok |-> FALSE, reason |-> "none"] ] :
    o \in Origens,
    rid \in {Nulo, <<"a">>, <<"b">>, <<" ", "a">>},
    id \in {Nulo, <<"1">>, <<"2">>, <<"1", " ">>},
    dataId \in {Nulo, <<"1">>},
    secret \in {Nulo, <<"k">>} }

InitSig ==
  /\ pedidos = [o \in PedidosNoInicio |-> NovoPedido]
  /\ now = 0
  /\ ticks = 0
  /\ mp = [h \in MpHooks |-> MpIdle]
  /\ cron = [s \in CronRuns |-> CronIdle]
  /\ me = [t \in MeHooks |-> MeIdle]
  /\ enviados = [o \in PedidosNoInicio |-> [confirm |-> 0, tracking |-> 0, expiry |-> 0]]
  /\ carrinho = [o \in PedidosNoInicio |-> 0]
  /\ gravacoes = [o \in PedidosNoInicio |-> 0]
  /\ trilha = [o \in PedidosNoInicio |-> <<AGUARDANDO>>]
  /\ webhook \in WebhooksRecebidos
  /\ LojaParada

\* 963: const sig = validateMpWebhook(req)
Validar ==
  /\ webhook.pc = "in"
  /\ webhook' = [webhook EXCEPT !.pc = "done",
                   !.sig = validateMpWebhook(webhook.req, webhook.MP_WEBHOOK_SECRET)]
  /\ UNCHANGED <<pedidos, now, ticks, mp, cron, me, enviados, carrinho, gravacoes, trilha, loja>>

SpecSig == InitSig /\ [][Validar]_vars

\* ================================================================ claims
\* the deliveries that classified their payment as approved for order o
Aprovados(o) ==
  {h \in MpHooks : mp[h].pc # "idle" /\ mp[h].pedidoId = o /\ mp[h].isApproved}

\* the deliveries that classified their payment as not approved for order o
NaoAprovados(o) ==
  {h \in MpHooks : mp[h].pc \notin {"idle", "lookup"} /\ mp[h].pedidoId = o
                   /\ ~mp[h].isApproved}

\* h's own conditional update to EM_PRODUCAO reported one affected row
Ganhou(h) == mp[h].isApproved /\ mp[h].affectedRows = 1

\* h ended as an idempotent no-op: zero rows, success, nothing else done
NoOp(h) ==
  /\ mp[h].pc = "done" /\ mp[h].fim = "noop"
  /\ mp[h].affectedRows = 0 /\ mp[h].resp = 200

\* no db.query of a payment webhook has thrown
SemErroDb == \A h \in MpHooks : mp[h].fim # "erro_db"

\* how often status s was written over a different status of o
Escritas(o, s) == Cardinality({i \in 2..Len(trilha[o]) : trilha[o][i] = s})

\* h1 and h2 are the two approved deliveries for o, interleaved in any way,
\* and both have been answered
C1_Caso(o, h1, h2) ==
  /\ h1 # h2
  /\ Aprovados(o) = {h1, h2}
  /\ mp[h1].pc = "done" /\ mp[h2].pc = "done"
  /\ SemErroDb

Entregas(o, id) == {h \in Aprovados(o) : mp[h].paymentId = id}

\* every request so far is a delivery of approved event id for order o, each
\* arrived after the one before it was answered, and all are answered
C2_Caso(o, id) ==
  /\ \A h \in MpHooks : mp[h].pc # "idle" => h \in Entregas(o, id) /\ mp[h].pc = "done"
  /\ \A h \in MpHooks : ~mp[h].concorrente
  /\ SemErroDb

Processados(o) ==
  {h \in MpHooks : mp[h].pc = "done" /\ mp[h].pedidoId = o /\ mp[h].affectedRows >= 0}

\* nothing is in flight and no database statement failed
C5_Caso == MpEmVoo = {} /\ SemErroDb

Passou(o) == {trilha[o][i] : i \in 1..Len(trilha[o])}

\* the status changes o has made: <<from, to>> at each position of its trail
Aresta(o, i) == <<trilha[o][i], trilha[o][i + 1]>>

\* C3: once an order has been EM_PRODUCAO, no payment event (and nothing
\* else) moves it to PAGAMENTO_PENDENTE, whatever the order of arrival and
\* the interleaving with other handlers.
C3_SemRegressao ==
  \A o \in Pedidos : \A i, j \in 1..Len(trilha[o]) :
    (i < j /\ trilha[o][i] = EM_PRODUCAO) => trilha[o][j] # PENDENTE

\* a non-approved event ran its update on an order in production: it read
\* the order as unpaid, the approval was written, and its update matched no row
C3_Witness ==
  \E o \in Pedidos : \E h \in NaoAprovados(o) :
    /\ NoOp(h)
    /\ mp[h].pedidoDoBanco = AGUARDANDO
    /\ trilha[o] = <<AGUARDANDO, EM_PRODUCAO>>
    /\ pedidos[o].status = EM_PRODUCAO

\* the edges of the status graph
ArestasPermitidas ==
  { <<AGUARDANDO, PENDENTE>>, <<AGUARDANDO, EM_PRODUCAO>>, <<PENDENTE, EM_PRODUCAO>>,
    <<EM_PRODUCAO, ENVIADO>>, <<AGUARDANDO, CANCELADO>>, <<PENDENTE, CANCELADO>> }

\* C4: every status change follows an edge of the graph, CANCELADO is
\* terminal (no edge leaves it), and no edge is taken twice for one order.
C4_Grafo ==
  \A o \in Pedidos :
    /\ \A i \in 1..(Len(trilha[o]) - 1) : Aresta(o, i) \in ArestasPermitidas
    /\ \A i, j \in 1..(Len(trilha[o]) - 1) : i # j => Aresta(o, i) # Aresta(o, j)

\* C6: the sweep never moves to CANCELADO an order that a payment webhook
\* advanced to EM_PRODUCAO after the sweep selected it.
C6_SweepCondicionado ==
  \A o \in Pedidos : \A i \in 1..(Len(trilha[o]) - 1) :
    Aresta(o, i) # <<EM_PRODUCAO, CANCELADO>>

\* C7: of an expiry sweep and an approved payment racing on one order, one
\* takes effect and the other is a no-op without side effects: an order that
\* was approved is never cancelled and gets no expiry e-mail; an order that
\* was cancelled is never approved and gets no confirmation e-mail and no
\* booking.
C7_UmEfeito ==
  \A o \in Pedidos :
    /\ EM_PRODUCAO \in Passou(o) => CANCELADO \notin Passou(o) /\ enviados[o].expiry = 0
    /\ CANCELADO \in Passou(o) =>
         EM_PRODUCAO \notin Passou(o) /\ enviados[o].confirm = 0 /\ carrinho[o] = 0

\* C8: melhor_envio_id is written at most once per order and the carrier
\* booking call is made at most once per order, over every interleaving of
\* payment webhooks, tracking webhooks and sweeps.
C8_UmaReserva ==
  \A o \in Pedidos : gravacoes[o] <= 1 /\ carrinho[o] <= 1

\* the order was booked and shipped, and a second approved event raced the
\* first: it read the order as unpaid and its update matched no row
C8_Witness ==
  \E o \in Pedidos : \E h \in Aprovados(o) :
    /\ gravacoes[o] = 1 /\ carrinho[o] = 1
    /\ NoOp(h) /\ mp[h].pedidoDoBanco = AGUARDANDO
    /\ pedidos[o].status = ENVIADO

\* h arrived when its order was already CANCELADO
Tardio(h) == mp[h].pedidoId \in mp[h].cancelados

\* C9: a payment event (approved or not) that arrives for an order already
\* CANCELADO wins no update, reaches none of the steps after a win (re-read,
\* e-mail, booking, saving the shipment id), is answered 200, and none of
\* its steps changes the order row.
C9_Estado ==
  \A h \in MpHooks :
    Tardio(h) =>
      /\ mp[h].affectedRows # 1
      /\ mp[h].pc \notin {"reselect", "email", "carrinho", "salvar_me"}
      /\ mp[h].pc = "done" => mp[h].resp = 200

C9_Passo ==
  \A h \in MpHooks :
    (Tardio(h) /\ mp'[h] # mp[h]) =>
      /\ pedidos'[mp[h].pedidoId] = pedidos[mp[h].pedidoId]
      /\ enviados' = enviados /\ carrinho' = carrinho

\* C9: a payment event that arrives for an order already cancelled by expiry
\* changes neither the order nor the e-mails and bookings, at any step of its
\* handling, and is answered 200.
C9_CanceladoDescarta == []C9_Estado /\ [][C9_Passo]_vars

\* an approved event for a cancelled order ran its update and was dropped
C9_Witness ==
  \E h \in MpHooks :
    /\ Tardio(h) /\ mp[h].isApproved /\ NoOp(h)
    /\ mp[h].pedidoDoBanco = CANCELADO
    /\ pedidos[mp[h].pedidoId].status = CANCELADO

\* C10: every payment webhook is answered 200, unless its signature is
\* rejected, and then 401: also when the gateway lookup, a database
\* statement or the carrier booking throws, and when it ends as a no-op.
C10_Resposta ==
  \A h \in MpHooks :
    /\ mp[h].pc = "done" =>
         mp[h].resp = IF mp[h].topic = "payment" /\ ~mp[h].sigOk THEN 401 ELSE 200
    /\ mp[h].pc # "done" => mp[h].resp = 0

\* one request ended in the catch block after the carrier threw, one was
\* rejected for its signature
C10_Witness ==
  \E h1, h2 \in MpHooks :
    /\ mp[h1].fim = "erro_carrier" /\ mp[h1].resp = 200
    /\ mp[h2].fim = "sig_invalid" /\ mp[h2].resp = 401

\* C11: after a delivery has won the update to EM_PRODUCAO, a confirmation
\* e-mail that fails, a carrier call that throws or answers without an id, and
\* a database statement that throws leave the order in EM_PRODUCAO (after a
\* failed e-mail the handler goes on to the booking); a failed booking leaves
\* melhor_envio_id NULL; the delivery is answered 200.
C11_FalhaNaoDesfaz ==
  \A h \in MpHooks :
    Ganhou(h) =>
      /\ pedidos[mp[h].pedidoId].status = EM_PRODUCAO
      /\ mp[h].emailOk # NULL => mp[h].pc = "carrinho"
      /\ mp[h].pc = "done" => mp[h].resp = 200
      /\ (mp[h].pc = "done" /\ mp[h].fim # "em_producao") =>
           pedidos[mp[h].pedidoId].melhor_envio_id = NULL
      /\ (mp[h].pc = "done" /\ gravacoes[mp[h].pedidoId] = 0) =>
           pedidos[mp[h].pedidoId].melhor_envio_id = NULL

\* the winner's e-mail was sent and then the carrier call threw
C11_Witness ==
  \E h \in MpHooks :
    /\ Ganhou(h) /\ mp[h].pc = "done"
    /\ mp[h].fim = "erro_carrier"
    /\ enviados[mp[h].pedidoId].confirm = 1 /\ carrinho[mp[h].pedidoId] = 1
    /\ mp[h].resp = 200
    /\ pedidos[mp[h].pedidoId].status = EM_PRODUCAO
    /\ pedidos[mp[h].pedidoId].melhor_envio_id = NULL

\* the text without its blanks
SemBrancos(t) == SelectSeq(t, LAMBDA c : c # " ")

\* the request's own id: query id, else data.id
IdDaRequisicao(w) ==
  IF w.req.query["id"] \notin {Nulo, <<>>} THEN w.req.query["id"] ELSE w.req.query["data.id"]

\* the header still carries the timestamp and the hash the sender made
HashIntacto(w) ==
  w.origem.forma \in {"integra", "maiusculas", "espacos", "invertida", "hash_com_sobra"}

\* the hash in the header is the HMAC, under the server's secret, of the
\* manifest of the request's own id, request id and timestamp
HashConfere(w) ==
  /\ HashIntacto(w)
  /\ w.origem.segredo = w.MP_WEBHOOK_SECRET
  /\ w.req.headers["x-request-id"] # Nulo
  /\ IdDaRequisicao(w) # Nulo
  /\ w.origem.id = SemBrancos(IdDaRequisicao(w))
  /\ w.origem.rid = SemBrancos(w.req.headers["x-request-id"])

\* C12: with a secret configured, validateMpWebhook accepts a request exactly
\* when the hash of its signature header is the HMAC of
\* id:<id>;request-id:<request-id>;ts:<ts>; for the request's own id, request
\* id and timestamp (a hash signed with another secret, or for another id,
\* request id or timestamp, or changed in a digit, is rejected); with no
\* secret configured it accepts every request.
C12_AceitaSoAssinado ==
  webhook.pc = "done" =>
    IF webhook.MP_WEBHOOK_SECRET = Nulo
    THEN webhook.sig.ok
    ELSE webhook.sig.ok <=> HashConfere(webhook)

\* a request signed for another timestamp was rejected
C12_Witness ==
  /\ webhook.pc = "done" /\ webhook.MP_WEBHOOK_SECRET # Nulo
  /\ webhook.origem.forma = "ts_trocado"
  /\ webhook.origem.segredo = webhook.MP_WEBHOOK_SECRET
  /\ webhook.origem.id = IdDaRequisicao(webhook)
  /\ webhook.origem.rid = webhook.req.headers["x-request-id"]
  /\ ~webhook.sig.ok

\* C13: with a secret configured the reason reported is the first that
\* applies of: missing_signature, missing_request_id, bad_signature_format,
\* missing_id, invalid_signature; ok is reported only when none applies.
C13_Precedencia ==
  (webhook.pc = "done" /\ webhook.MP_WEBHOOK_SECRET # Nulo) =>
    /\ webhook.sig.reason =
         IF webhook.origem.forma \in {"vazia", "ausente"} THEN "missing_signature"
         ELSE IF webhook.req.headers["x-request-id"] = Nulo THEN "missing_request_id"
         ELSE IF webhook.origem.forma \in {"sem_ts", "sem_v1", "sem_igual"}
         THEN "bad_signature_format"
         ELSE IF IdDaRequisicao(webhook) = Nulo THEN "missing_id"
         ELSE IF ~HashConfere(webhook) THEN "invalid_signature"
         ELSE "ok"
    /\ webhook.sig.ok <=> webhook.sig.reason = "ok"

\* a request with neither a parseable signature nor an id was reported as
\* badly formatted
C13_Witness ==
  /\ webhook.pc = "done" /\ webhook.MP_WEBHOOK_SECRET # Nulo
  /\ webhook.origem.forma = "sem_v1"
  /\ webhook.req.headers["x-request-id"] # Nulo
  /\ IdDaRequisicao(webhook) = Nulo
  /\ webhook.sig = [ok |-> FALSE, reason |-> "bad_signature_format"]

\* nothing of h's handling has gone beyond the checks on arrival: no gateway
\* lookup, no statement on the table, no e-mail, no booking
SoTriagem(h) ==
  /\ mp[h].pc = "done"
  /\ mp[h].paymentId = NULL /\ mp[h].pedidoId = 0 /\ mp[h].pedidoDoBanco = NULL
  /\ mp[h].affectedRows = -1 /\ mp[h].pedidoAtualizado = NULL
  /\ mp[h].emailOk = NULL /\ mp[h].melhorEnvioId = NULL

\* h is a payment-topic request whose signature check failed
Rejeitado(r) == r.pc # "idle" /\ r.topic = "payment" /\ ~r.sigOk

C14_Estado ==
  \A h \in MpHooks : Rejeitado(mp[h]) => SoTriagem(h) /\ mp[h].resp = 401

\* the step that rejects h, and any step after it, leaves the orders, the
\* e-mails and the bookings as they are on h's account
C14_Passo ==
  \A h \in MpHooks :
    /\ (~Rejeitado(mp[h]) /\ Rejeitado(mp'[h])) =>
         /\ pedidos' = pedidos /\ enviados' = enviados
         /\ carrinho' = carrinho /\ gravacoes' = gravacoes
    /\ Rejeitado(mp[h]) => mp'[h] = mp[h]

\* C14: a payment-topic webhook whose signature check fails is answered 401
\* and goes no further: no gateway lookup, no read or write of an order, no
\* e-mail and no carrier booking.
C14_RejeitadoNaoAge == []C14_Estado /\ [][C14_Passo]_vars

\* the first request was rejected with nothing touched, then a second one
\* for the same order was processed
C14_Witness ==
  \E h1, h2 \in MpHooks :
    /\ h1 < h2
    /\ Rejeitado(mp[h1]) /\ mp[h1].resp = 401 /\ mp[h1].fim = "sig_invalid"
    /\ ~mp[h1].concorrente
    /\ mp[h2].pedidoDoBanco = AGUARDANDO /\ mp[h2].pc = "update"
    /\ \A o \in Pedidos : pedidos[o] = NovoPedido /\ enviados[o].confirm = 0 /\ carrinho[o] = 0

\* h's topic (query topic, else type) is not 'payment'
ForaDoTopico(r) == r.pc # "idle" /\ r.topic # "payment"

C15_Estado ==
  \A h \in MpHooks :
    ForaDoTopico(mp[h]) => SoTriagem(h) /\ mp[h].resp = 200 /\ mp[h].fim = "ignored"

C15_Passo ==
  \A h \in MpHooks :
    /\ (~ForaDoTopico(mp[h]) /\ ForaDoTopico(mp'[h])) =>
         /\ pedidos' = pedidos /\ enviados' = enviados
         /\ carrinho' = carrinho /\ gravacoes' = gravacoes
    /\ ForaDoTopico(mp[h]) => mp'[h] = mp[h]

\* C15: a payment webhook whose topic (query topic, else type) is not
\* 'payment' is answered 200 and goes no further: no gateway lookup, no
\* order changed, no e-mail, no booking, whatever its signature, which is
\* not looked at.
C15_ForaDoTopicoIgnorado == []C15_Estado /\ [][C15_Passo]_vars

\* a request with no topic, a type other than payment and a signature that
\* would not verify was acknowledged
C15_Witness ==
  \E h \in MpHooks :
    /\ mp[h].pc = "done" /\ mp[h].topic = "subscription" /\ ~mp[h].sigOk
    /\ mp[h].resp = 200 /\ mp[h].fim = "ignored"
    /\ \A o \in Pedidos : pedidos[o] = NovoPedido /\ enviados[o].confirm = 0 /\ carrinho[o] = 0

\* h's payment has no record at the gateway, or no external reference, or an
\* external reference that is no order's id and has been looked up in the
\* table (pedidoId is 0 until the gateway has answered)
SemPedido(r) ==
  \/ r.fim = "no_ref"
  \/ r.pc # "select" /\ r.pedidoId \notin Pedidos \cup {0}

C16_Estado ==
  \A h \in MpHooks :
    SemPedido(mp[h]) =>
      /\ mp[h].pc = "done" /\ mp[h].resp = 200
      /\ mp[h].fim \in {"no_ref", "no_order", "erro_db"}
      /\ mp[h].pedidoDoBanco = NULL /\ mp[h].affectedRows = -1
      /\ mp[h].pedidoAtualizado = NULL /\ mp[h].emailOk = NULL
      /\ mp[h].melhorEnvioId = NULL

\* no step of h up to and including the one that finds no order changes an
\* order, an e-mail count or a booking count, and h takes no step after it
C16_Passo ==
  \A h \in MpHooks :
    /\ (mp'[h] # mp[h] /\ mp[h].pc \in {"idle", "lookup", "select"}) =>
         /\ pedidos' = pedidos /\ enviados' = enviados
         /\ carrinho' = carrinho /\ gravacoes' = gravacoes
    /\ SemPedido(mp[h]) => mp'[h] = mp[h]

\* C16: a verified payment event whose gateway record is absent or has no
\* external reference, or whose external reference is no order's id, is
\* answered 200 and changes no order, sends no e-mail and books nothing.
C16_SemPedidoNaoAge == []C16_Estado /\ [][C16_Passo]_vars

\* one event had no external reference, another referred to an order that
\* does not exist; the orders are as they were
C16_Witness ==
  \E h1, h2 \in MpHooks :
    /\ mp[h1].fim = "no_ref" /\ mp[h1].sigOk /\ mp[h1].resp = 200
    /\ mp[h2].fim = "no_order" /\ mp[h2].sigOk /\ mp[h2].resp = 200
    /\ mp[h2].pedidoId \notin Pedidos
    /\ \A o \in Pedidos : pedidos[o] = NovoPedido /\ enviados[o].confirm = 0 /\ carrinho[o] = 0

\* the runs of the sweep that passed the token check
Varreduras == {s \in CronRuns : cron[s].pc # "idle" /\ cron[s].resp # 401}

\* one run of the sweep has happened, alone, and was answered 200
UmaVarredura ==
  /\ Cardinality(Varreduras) = 1
  /\ \A s \in Varreduras : cron[s].pc = "done" /\ cron[s].resp = 200

\* the order is as the handlers left it before the sweep
Intocado(o) ==
  /\ pedidos[o] = PedidoNoStatus(pedidos[o].status)
  /\ trilha[o] = Historico(pedidos[o].status)
  /\ enviados[o] = EnviadosNoStatus(pedidos[o].status)

\* C17: one run of the sweep cancels, and sends one expiry e-mail to, exactly
\* the orders that are AGUARDANDO_PAGAMENTO or PAGAMENTO_PENDENTE with a
\* deadline strictly before the current time: after the run no such order is
\* left, every other order is as it was (an order at or before its deadline,
\* an order in production, shipped or already cancelled) and has no new
\* expiry e-mail, and a cancelled order was unpaid and past its deadline.
C17_VarreExpirados ==
  UmaVarredura =>
    \A o \in Pedidos :
      /\ ~(pedidos[o].status \in {AGUARDANDO, PENDENTE} /\ pedidos[o].expiracao_pix < now)
      /\ pedidos[o].status # CANCELADO => Intocado(o) /\ enviados[o].expiry = 0
      /\ pedidos[o].status = CANCELADO =>
           /\ pedidos[o].expiracao_pix < now
           /\ enviados[o].expiry = 1
           /\ enviados[o].confirm = 0 /\ enviados[o].tracking = 0
           /\ LET Era(st) ==
                     /\ pedidos[o] = [PedidoNoStatus(st) EXCEPT !.status = CANCELADO]
                     /\ trilha[o] = Append(Historico(st), CANCELADO)
              IN  Era(AGUARDANDO) \/ Era(PENDENTE)

\* a pending order one minute past its deadline was cancelled and notified
C17_Witness ==
  /\ UmaVarredura
  /\ \E o \in Pedidos :
       /\ now = pedidos[o].expiracao_pix + 1
       /\ trilha[o] = <<AGUARDANDO, PENDENTE, CANCELADO>>
       /\ enviados[o].expiry = 1
       /\ \E s \in Varreduras : cron[s].n = 1

\* C18: an order created with a window of EXPIRACAO_MINUTOS = 60 minutes that
\* no payment webhook has reached is, after one sweep run 61 minutes after
\* its creation, CANCELADO_POR_EXPIRACAO with one expiry e-mail, and after one
\* sweep run before its deadline AGUARDANDO_PAGAMENTO with none.
C18_JanelaDe60 ==
  UmaVarredura =>
    \A o \in Pedidos :
      pedidos[o].mercado_pago_id = NULL =>
        /\ now >= 0 + EXPIRACAO_MINUTOS + 1 =>
             pedidos[o].status = CANCELADO /\ enviados[o].expiry = 1
        /\ now < 0 + EXPIRACAO_MINUTOS =>
             pedidos[o].status = AGUARDANDO /\ enviados[o].expiry = 0

\* the sweep ran at minute 61, selected the order and cancelled it
C18_Witness ==
  /\ UmaVarredura
  /\ now = 61
  /\ \E s \in Varreduras : cron[s].n = 1
  /\ \E o \in Pedidos :
       /\ pedidos[o] = [NovoPedido EXCEPT !.status = CANCELADO]
       /\ trilha[o] = <<AGUARDANDO, CANCELADO>>
       /\ enviados[o] = [confirm |-> 0, tracking |-> 0, expiry |-> 1]

\* s was refused: a secret is configured and the token (query token, else
\* header x-cron-token) is missing or is not the secret
Recusado(r) == r.pc # "idle" /\ r.CRON_SECRET # NULL /\ r.token # r.CRON_SECRET

C19_Estado ==
  \A s \in CronRuns :
    /\ Recusado(cron[s]) =>
         cron[s].pc = "done" /\ cron[s].resp = 401 /\ cron[s].n = 0 /\ cron[s].fila = <<>>
    /\ (cron[s].pc # "idle" /\ cron[s].CRON_SECRET = NULL) => cron[s].resp # 401
    /\ (cron[s].pc = "done" /\ cron[s].CRON_SECRET = NULL /\ cron[s].resp = 200) =>
         \A o \in Pedidos :
           ~(pedidos[o].status \in {AGUARDANDO, PENDENTE} /\ pedidos[o].expiracao_pix < now)

\* the step that refuses s changes no order and sends no e-mail, and s takes
\* no step after it
C19_Passo ==
  \A s \in CronRuns :
    /\ (~Recusado(cron[s]) /\ Recusado(cron'[s])) =>
         pedidos' = pedidos /\ enviados' = enviados
    /\ Recusado(cron[s]) => cron'[s] = cron[s]

\* C19: with a cron secret configured, a sweep request whose token is missing
\* or is not the secret is answered 401, changes no order and sends no
\* e-mail; with no cron secret configured every request runs the sweep.
C19_TokenDoCron == []C19_Estado /\ [][C19_Passo]_vars

\* a request with a wrong token was refused and the expired order is still unpaid
C19_Witness ==
  \E s \in CronRuns : \E o \in Pedidos :
    /\ Recusado(cron[s]) /\ cron[s].token = "outro" /\ cron[s].resp = 401
    /\ pedidos[o].status = AGUARDANDO /\ pedidos[o].expiracao_pix < now
    /\ Intocado(o)

\* a tracking event for a shipment some order carries, with a tracking code
Casado(r) ==
  /\ r.event = "tracking"
  /\ r.tracking \notin {NULL, ""}
  /\ r.id # NULL
  /\ \E o \in Pedidos : pedidos[o].melhor_envio_id = r.id

\* matched requests answered with success have their order shipped with a
\* tracking code some request for it brought; the others never pick an order
C20_Estado ==
  \A t \in MeHooks :
    /\ (me[t].pc = "done" /\ me[t].resp = 200 /\ Casado(me[t])) =>
         /\ me[t].pedidoId \in Pedidos
         /\ pedidos[me[t].pedidoId].melhor_envio_id = me[t].id
         /\ pedidos[me[t].pedidoId].status = ENVIADO
         /\ \E u \in MeHooks :
              /\ me[u].pedidoId = me[t].pedidoId
              /\ pedidos[me[t].pedidoId].codigo_rastreio = me[u].tracking
    /\ (me[t].pc # "idle" /\ ~Casado(me[t])) =>
         /\ me[t].pedidoId = 0
         /\ me[t].pc \in {"select", "done"}
         /\ me[t].event # "tracking" => me[t].pc = "done" /\ me[t].resp = 200
         /\ me[t].pc = "done" => me[t].resp \in {200, 500}

\* a request that picked no order changes no order and sends nothing; one that
\* picked an order sends exactly one tracking e-mail, for that order, on its
\* way to the success answer
C20_Passo ==
  \A t \in MeHooks :
    me'[t] # me[t] =>
      /\ me'[t].pedidoId = 0 => pedidos' = pedidos /\ enviados' = enviados
      /\ (me'[t].pc = "done" /\ me'[t].resp = 200 /\ me'[t].pedidoId # 0) =>
           /\ pedidos' = pedidos
           /\ enviados' =
                [enviados EXCEPT ![me[t].pedidoId].tracking = @ + 1]
      /\ \A o \in Pedidos :
           enviados'[o] # enviados[o] =>
             me'[t].pc = "done" /\ me'[t].resp = 200 /\ me'[t].pedidoId = o

\* C20: a tracking event whose resource id is some order's carrier shipment id
\* and whose tracking code is not empty stores the code on that order, sets it
\* to ENVIADO and sends one tracking e-mail; without a matching order, without
\* a tracking code, or for another event, no order changes, no e-mail is sent
\* and the answer is success (unless the database query itself fails)
C20_Rastreio == []C20_Estado /\ [][C20_Passo]_vars

C20_Witness ==
  \E t \in MeHooks :
    /\ me[t].pc = "done" /\ me[t].resp = 200 /\ Casado(me[t])
    /\ pedidos[me[t].pedidoId].status = ENVIADO
    /\ pedidos[me[t].pedidoId].codigo_rastreio = me[t].tracking
    /\ trilha[me[t].pedidoId] = <<AGUARDANDO, EM_PRODUCAO, ENVIADO>>

\* h is on the path that follows a win: re-read, e-mail, booking
NoCaminhoDoGanho(h) == mp[h].pc \in {"reselect", "email", "carrinho", "salvar_me"}

\* the path that follows a win is taken by the handlers whose own UPDATE to
\* EM_PRODUCAO reported one row, and by no other; none of them ends as a no-op
C27_Estado ==
  \A h \in MpHooks :
    /\ NoCaminhoDoGanho(h) => Ganhou(h)
    /\ Ganhou(h) =>
         \/ NoCaminhoDoGanho(h)
         \/ mp[h].pc = "done" /\ mp[h].fim \in {"em_producao", "erro_carrier", "erro_db"}
    /\ (mp[h].pc = "done" /\ mp[h].fim \in {"em_producao", "erro_carrier"}) => Ganhou(h)

\* a confirmation e-mail and a booking call are made by a handler that won, the
\* e-mail first; a handler that won and re-read the order makes both
C27_Passo ==
  \A h \in MpHooks :
    mp'[h] # mp[h] =>
      /\ enviados' # enviados <=> mp[h].pc = "email"
      /\ carrinho' # carrinho <=> mp[h].pc = "carrinho"
      /\ mp[h].pc = "email" =>
           /\ Ganhou(h)
           /\ enviados' = [enviados EXCEPT ![mp[h].pedidoId].confirm = @ + 1]
           /\ mp'[h].pc = "carrinho"
      /\ mp[h].pc = "carrinho" =>
           /\ Ganhou(h)
           /\ carrinho' = [carrinho EXCEPT ![mp[h].pedidoId] = @ + 1]
      /\ mp[h].pc = "reselect" =>
           mp'[h].pc = "email" \/ (mp'[h].pc = "done" /\ mp'[h].fim = "erro_db")

Alvo(status) == IF status = "approved" THEN EM_PRODUCAO ELSE PENDENTE

\* while the payment is at hand, the event is classified as approved exactly
\* when its status is 'approved'
C28_Estado ==
  \A h \in MpHooks :
    mp[h].pc \in {"select", "update"} =>
      /\ mp[h].paymentStatus \in TodosOsStatus
      /\ mp[h].isApproved <=> mp[h].paymentStatus = "approved"

\* a step of a payment webhook that changes an order's status sets it to the
\* target of the handler's payment status; no other step of it changes a status
C28_Passo ==
  \A h \in MpHooks :
    mp'[h] # mp[h] =>
      \A o \in Pedidos :
        pedidos'[o].status # pedidos[o].status =>
          /\ mp[h].pc = "update"
          /\ o = mp[h].pedidoId
          /\ pedidos'[o].status = Alvo(mp[h].paymentStatus)

\* C28: the target status of a payment event is EM_PRODUCAO exactly when the
\* gateway's payment status is 'approved' and PAGAMENTO_PENDENTE for every
\* other status, an absent one included; a payment event sets no other status
C28_DoisAlvos == []C28_Estado /\ [][C28_Passo]_vars

\* a refunded payment was classified as not approved, and a not approved
\* event has moved an unpaid order to PAGAMENTO_PENDENTE
C28_Witness ==
  \E h1, h2 \in MpHooks :
    /\ mp[h1].pc = "update" /\ mp[h1].paymentStatus = "refunded" /\ ~mp[h1].isApproved
    /\ mp[h2].pc = "done" /\ mp[h2].fim = "pendente" /\ mp[h2].affectedRows = 1
    /\ pedidos[mp[h2].pedidoId].status = PENDENTE
    /\ trilha[mp[h2].pedidoId] = <<AGUARDANDO, PENDENTE>>

\* the statuses from which a payment event may move an order to its target
PredecessoresDoAlvo(isApproved) ==
  IF isApproved THEN {AGUARDANDO, PENDENTE} ELSE {AGUARDANDO}

\* a payment event changes a row in its UPDATE, and then only a row whose
\* status is a predecessor of its target, or in the booking that follows its
\* own win; its UPDATE on any other row leaves the whole table as it was, and
\* its UPDATE on a predecessor writes the status and the payment's data
C29_Passo ==
  \A h \in MpHooks :
    mp'[h] # mp[h] =>
      LET o == mp[h].pedidoId
          alvo == IF mp[h].isApproved THEN EM_PRODUCAO ELSE PENDENTE
      IN  /\ pedidos' # pedidos =>
               \/ /\ mp[h].pc = "update"
                  /\ pedidos[o].status \in PredecessoresDoAlvo(mp[h].isApproved)
               \/ mp[h].pc = "salvar_me" /\ Ganhou(h)
          /\ (/\ mp[h].pc = "update"
              /\ pedidos[o].status \notin PredecessoresDoAlvo(mp[h].isApproved)) =>
               /\ pedidos' = pedidos
               /\ mp'[h].pc = "done"
          /\ (/\ mp[h].pc = "update"
              /\ pedidos[o].status \in PredecessoresDoAlvo(mp[h].isApproved)
              /\ mp'[h].fim # "erro_db") =>
               /\ pedidos'[o].status = alvo
               /\ pedidos'[o].mercado_pago_id = mp[h].paymentId
               /\ \A p \in Pedidos \ {o} : pedidos'[p] = pedidos[p]

\* C29: a payment event writes the order row only when the order's status is
\* in the predecessor set of its target (AGUARDANDO_PAGAMENTO or
\* PAGAMENTO_PENDENTE for EM_PRODUCAO, AGUARDANDO_PAGAMENTO for
\* PAGAMENTO_PENDENTE); otherwise the whole row, its payment id, payment
\* method and card digits included, stays as it was
C29_SoDePredecessor == [][C29_Passo]_vars

\* an approved event for another payment ended as a no-op on a shipped order,
\* whose row still carries the first payment
C29_Witness ==
  \E h \in MpHooks :
    /\ NoOp(h) /\ mp[h].isApproved /\ mp[h].paymentId = "pay2"
    /\ mp[h].pedidoDoBanco = ENVIADO
    /\ pedidos[mp[h].pedidoId] = PedidoNoStatus(ENVIADO)

\* the position of a step on the path that follows a win
Ordem(pc) ==
  CASE pc = "update" -> 1
    [] pc = "reselect" -> 2
    [] pc = "email" -> 3
    [] pc = "carrinho" -> 4
    [] pc = "salvar_me" -> 5
    [] OTHER -> 6

\* from the re-read on, the handler's write is in the table, and the order the
\* handler holds for the e-mail and the booking carries the payment id it wrote
C30_Estado ==
  \A h \in MpHooks :
    /\ mp[h].pc \in {"reselect", "email", "carrinho"} =>
         /\ pedidos[mp[h].pedidoId].mercado_pago_id = mp[h].paymentId
         /\ \E i \in 1..Len(trilha[mp[h].pedidoId]) : trilha[mp[h].pedidoId][i] = EM_PRODUCAO
    /\ mp[h].pc \in {"email", "carrinho"} =>
         mp[h].pedidoAtualizado = mp[h].paymentId

\* a handler that won goes from its UPDATE to the re-read, from the re-read to
\* the e-mail, from the e-mail to the booking, one at a time, unless one throws
\* and the handler answers; the e-mail is handed over in the e-mail step and
\* the carrier is called in the booking step
C30_Passo ==
  \A h \in MpHooks :
    (mp'[h] # mp[h] /\ mp[h].pc \in {"update", "reselect", "email", "carrinho"}) =>
      /\ \/ mp'[h].pc = "done"
         \/ Ordem(mp'[h].pc) = Ordem(mp[h].pc) + 1
      /\ mp'[h].pc = "reselect" => pedidos'[mp[h].pedidoId].status = EM_PRODUCAO
      /\ mp[h].pc \in {"update", "reselect"} => enviados' = enviados /\ carrinho' = carrinho
      /\ mp[h].pc = "email" =>
           /\ enviados'[mp[h].pedidoId].confirm = enviados[mp[h].pedidoId].confirm + 1
           /\ carrinho' = carrinho
      /\ mp[h].pc = "carrinho" =>
           /\ carrinho'[mp[h].pedidoId] = carrinho[mp[h].pedidoId] + 1
           /\ enviados' = enviados

\* C30: on a win into EM_PRODUCAO the status write commits, then the order is
\* re-read, then the confirmation e-mail is attempted, then the carrier booking;
\* the order given to the e-mail and to the booking carries the gateway payment
\* id this handler wrote
C30_OrdemDosPassos == []C30_Estado /\ [][C30_Passo]_vars

\* the handler that won is about to book, its e-mail handed over, holding the
\* order it re-read after its write
C30_Witness ==
  \E h \in MpHooks :
    /\ Ganhou(h) /\ mp[h].pc = "carrinho"
    /\ mp[h].pedidoAtualizado = "pay2" /\ mp[h].paymentId = "pay2"
    /\ pedidos[mp[h].pedidoId].status = EM_PRODUCAO
    /\ enviados[mp[h].pedidoId].confirm = 1 /\ carrinho[mp[h].pedidoId] = 0

\* the checkouts that were answered with the session's id and link
BemSucedidos == {c \in 1..MaxCheckouts : pref[c].pc = "done" /\ pref[c].resp = 201}

\* the gateway sessions that refer to order o
SessoesDe(o) == {i \in DOMAIN preferencias : preferencias[i].external_reference = o}

\* the checkouts whose INSERT has resolved
Inseriram == {c \in 1..MaxCheckouts : pref[c].novoPedidoId # 0}

\* C22: every successful checkout has created exactly one new order, in
\* AGUARDANDO_PAGAMENTO with its deadline at creation + 60 minutes, and one
\* gateway session whose external reference is that order's id and whose
\* notification URL is the payment webhook; it returns the session's id and link
C22_CheckoutBemSucedido ==
  /\ \A c \in BemSucedidos :
       LET o == pref[c].novoPedidoId
       IN  /\ o \in Pedidos
           /\ pedidos[o].status = AGUARDANDO
           /\ pedidos[o].expiracao_pix = pedidos[o].data_criacao + EXPIRACAO_MINUTOS
           /\ Cardinality(SessoesDe(o)) = 1
           /\ \A i \in SessoesDe(o) :
                /\ preferencias[i].notification_url = "/notificacao-pagamento"
                /\ pref[c].json.id = i
                /\ pref[c].json.init_point = i
           /\ \A b \in 1..MaxCheckouts \ {c} : pref[b].novoPedidoId # o
  /\ Len(pedidos) = Cardinality(Inseriram)
  /\ \A c \in Inseriram : pref[c].novoPedidoId \in Pedidos

\* a checkout succeeded after one that failed at the gateway: the sessions are
\* not numbered as the orders are
C22_Witness ==
  /\ Cardinality(Inseriram) = MaxCheckouts
  /\ \E c \in BemSucedidos :
       /\ pref[c].body.shipmentCost = Js("number", 20)
       /\ pedidos[pref[c].novoPedidoId].valor_total = 150
       /\ pref[c].json.id # pref[c].novoPedidoId

\* the body lacks one of items, customerInfo, selectedShipping, shipmentCost
Faltando(body) ==
  \/ body.items.tipo = "undefined"
  \/ body.customerInfo.tipo = "undefined"
  \/ body.selectedShipping.tipo = "undefined"
  \/ body.shipmentCost.tipo = "undefined"

\* the checkouts that have arrived with a body that lacks a property
Incompletos == {c \in 1..MaxCheckouts : pref[c].pc # "idle" /\ Faltando(pref[c].body)}

\* C23: a checkout whose body lacks any of items, customer info, selected
\* shipping option or shipping cost is answered 400 on arrival; it inserts no
\* order and creates no gateway session (the rows and the sessions there are
\* were all made by the other checkouts)
C23_IncompletoRejeitado ==
  /\ \A c \in Incompletos :
       /\ pref[c].pc = "done"
       /\ pref[c].resp = 400
       /\ pref[c].novoPedidoId = 0
  /\ Len(pedidos) = Cardinality(Inseriram \ Incompletos)
  /\ Len(preferencias) = Cardinality(BemSucedidos \ Incompletos)

\* a checkout without the shipping option, complete otherwise, was rejected
\* and the table is empty
C23_Witness ==
  \E c \in Incompletos :
    /\ pref[c].body.selectedShipping.tipo = "undefined"
    /\ pref[c].body.items.tipo = "array"
    /\ pref[c].body.customerInfo.tipo = "object"
    /\ pref[c].body.shipmentCost.tipo = "number"
    /\ pref[c].resp = 400
    /\ pedidos = <<>> /\ preferencias = <<>>

\* the generic failure answer
FalhaGenerica(r) ==
  r.pc = "done" /\ r.resp = 500 /\ r.json = [error |-> "Erro interno ao processar o pedido."]

\* an order without a gateway session is the order of a checkout that was
\* answered with the failure, or that is still about to create the session
C24_Estado ==
  \A o \in Pedidos :
    SessoesDe(o) = {} =>
      \E c \in 1..MaxCheckouts :
        /\ pref[c].novoPedidoId = o
        /\ pref[c].pc = "create" \/ FalhaGenerica(pref[c])

\* a checkout whose INSERT inserts no row, or whose session is not created,
\* is answered with the failure in that step
C24_Passo ==
  \A c \in 1..MaxCheckouts :
    /\ (pref[c].pc = "insert" /\ pref'[c] # pref[c] /\ pedidos' = pedidos) =>
         FalhaGenerica(pref'[c])
    /\ (pref[c].pc = "create" /\ pref'[c] # pref[c] /\ preferencias' = preferencias) =>
         FalhaGenerica(pref'[c])

\* C24: a checkout whose INSERT or whose gateway session creation fails ends
\* with the 500 answer and its generic message, so every order without a
\* gateway session belongs to a checkout that was answered with the failure
\* (or has not been answered yet)
C24_FalhaRespondida == []C24_Estado /\ [][C24_Passo]_vars

\* the gateway failed after the INSERT: the order is in the table without a
\* session and the checkout was answered 500
C24_Witness ==
  \E c \in 1..MaxCheckouts :
    /\ FalhaGenerica(pref[c])
    /\ pref[c].novoPedidoId \in Pedidos
    /\ SessoesDe(pref[c].novoPedidoId) = {}
    /\ pedidos[pref[c].novoPedidoId].status = AGUARDANDO

\* the lookup's cpf and e-mail are not both those of one order
SemPedidoDosDois(r) ==
  \A o \in Pedidos :
    pedidos[o].cpf_cliente # SoDigitos(r.cpf) \/ pedidos[o].email_cliente # r.email

\* a lookup that gave both fields and matches no order is answered 404 with one
\* and the same body (or 500 when the query failed), whichever field is wrong
C25_Estado ==
  \A q \in 1..MaxConsultas :
    (rastreio[q].pc = "done" /\ rastreio[q].resp # 400 /\ SemPedidoDosDois(rastreio[q])) =>
      /\ rastreio[q].resp \in {404, 500}
      /\ rastreio[q].resp = 404 =>
           rastreio[q].json = [error |-> "Nenhum pedido encontrado para o CPF e e-mail informados."]

\* a step of a lookup changes no order
C25_Passo == rastreio' # rastreio => pedidos' = pedidos

\* C25: the order lookup answers with the same status code and the same body
\* when the cpf matches no order, when the e-mail matches no order, and when
\* they match different orders; the lookup changes no order
C25_NaoEncontradoUniforme == []C25_Estado /\ [][C25_Passo]_vars

\* the cpf is the one of the first order and the e-mail the one of the second
C25_Witness ==
  \E q \in 1..MaxConsultas : \E o1, o2 \in Pedidos :
    /\ rastreio[q].pc = "done" /\ rastreio[q].resp = 404
    /\ SemPedidoDosDois(rastreio[q])
    /\ o1 # o2
    /\ pedidos[o1].cpf_cliente = SoDigitos(rastreio[q].cpf)
    /\ pedidos[o2].email_cliente = rastreio[q].email

\* ------------------------------------------------------------------ C26
\* the fields of order o that the step changes are all among campos
MudouSo(o, campos) ==
  \A f \in DOMAIN pedidos[o] \ campos : pedidos'[o][f] = pedidos[o][f]

\* C26 as the specification states it: no step deletes an order, and a step
\* that changes a field of an existing order is a step of a payment webhook
\* (its carrier booking included) or of the expiry sweep.
C26_SoPagamentoEVarredura ==
  [][\A o \in DOMAIN pedidos :
       /\ o \in DOMAIN pedidos'
       /\ pedidos'[o] # pedidos[o] => mp' # mp \/ cron' # cron]_vars

\* C26, amended: no step deletes an order, and a step that changes a field of
\* an existing order is a step of a payment webhook (its carrier booking
\* included), of the expiry sweep or of the tracking webhook. The tracking
\* webhook changes the tracking code and the status, the sweep the status, the
\* payment webhook the status, the payment fields and the carrier shipment id.
C26_SoWebhooksEVarredura ==
  [][\A o \in DOMAIN pedidos :
       /\ o \in DOMAIN pedidos'
       /\ pedidos'[o] # pedidos[o] => mp' # mp \/ cron' # cron \/ me' # me
       /\ me' # me => MudouSo(o, {"status", "codigo_rastreio"})
       /\ cron' # cron => MudouSo(o, {"status"})
       /\ mp' # mp => MudouSo(o, {"status", "mercado_pago_id", "metodo_pagamento",
                                  "final_cartao", "melhor_envio_id"})]_vars

\* an order made by a checkout has been paid, booked and then marked as
\* shipped by a tracking webhook
C26_Witness ==
  \E t \in MeHooks :
    /\ me[t].pc \in {"email", "done"}
    /\ me[t].pedidoId \in Pedidos
    /\ pedidos[me[t].pedidoId].status = ENVIADO
    /\ pedidos[me[t].pedidoId].codigo_rastreio = me[t].tracking
    /\ \E c \in 1..MaxCheckouts : pref[c].novoPedidoId = me[t].pedidoId

\* ------------------------------------------------------------------ C21
\* 773: Number(shipmentCost), the shipping cost as a number
Number(v) ==
  CASE v.tipo = "number" -> v.valor
    [] v.tipo = "null" -> 0
    [] v.tipo = "string" -> Decimal(v.valor)

\* every order a checkout has inserted stores the sum of its line items plus
\* the shipping cost of its request
C21_Estado ==
  \A c \in 1..MaxCheckouts :
    pref[c].novoPedidoId \in Pedidos =>
      pedidos[pref[c].novoPedidoId].valor_total
        = Subtotal(pref[c].body.items.valor) + Number(pref[c].body.shipmentCost)

\* no step changes the stored total of an order
C21_Passo ==
  \A o \in DOMAIN pedidos :
    o \in DOMAIN pedidos' /\ pedidos'[o].valor_total = pedidos[o].valor_total

\* C21: the total stored at checkout is the sum over the line items of unit
\* price times quantity plus the shipping cost, and no later step of a payment
\* webhook, of its carrier booking, of a tracking webhook, of the sweep or of
\* a lookup changes it.
C21_TotalGuardado == []C21_Estado /\ [][C21_Passo]_vars

\* ------------------------------------------------------------------ C31
\* the step is h's UPDATE to PAGAMENTO_PENDENTE and it changed a row
GanhoPendente(h) ==
  /\ mp[h].pc = "update"
  /\ ~mp[h].isApproved
  /\ mp'[h].affectedRows > 0

\* a handler that has won into PAGAMENTO_PENDENTE has answered
C31_Estado ==
  \A h \in MpHooks : mp[h].fim = "pendente" => mp[h].pc = "done" /\ mp[h].resp = 200

\* the winning UPDATE writes the status and the payment id of its order, and
\* the step sends no e-mail and books no shipment
C31_Passo ==
  \A h \in MpHooks :
    GanhoPendente(h) =>
      /\ mp'[h].pc = "done" /\ mp'[h].fim = "pendente"
      /\ mp[h].pedidoId \in Pedidos
      /\ pedidos' = [pedidos EXCEPT ![mp[h].pedidoId] =
                       [@ EXCEPT !.status = PENDENTE, !.mercado_pago_id = mp[h].paymentId]]
      /\ pedidos'[mp[h].pedidoId].status # pedidos[mp[h].pedidoId].status
      /\ UNCHANGED <<enviados, carrinho, gravacoes>>

\* C31: a win into PAGAMENTO_PENDENTE changes the order's status and stored
\* payment id and nothing else of the order (method, card digits, carrier
\* shipment id, tracking code and total stay), no other order changes, and
\* the handler answers without sending an e-mail or booking a shipment.
C31_GanhoPendente == []C31_Estado /\ [][C31_Passo]_vars

\* a pending event has won its order, which had no payment id before
C31_Witness ==
  \E h \in MpHooks :
    /\ mp[h].fim = "pendente"
    /\ pedidos[mp[h].pedidoId] = PedidoPendente(mp[h].paymentId)
    /\ enviados[mp[h].pedidoId].confirm = 0
    /\ carrinho[mp[h].pedidoId] = 0

\* ------------------------------------------------- sendEmail on its own
\* calls of sendEmail under every configuration and every provider behaviour
SpecMail == InitVazio /\ [][Enviar]_vars

\* ------------------------------------------------------------------ C33
\* the call went to sendEmailViaResend with a key configured
ViaResend ==
  /\ correio.pc = "done"
  /\ correio.cfg.provider \in {"resend", "auto"}
  /\ correio.cfg.resend

\* the first attempt failed with 403 and a message saying 'not verified'
SenderNaoVerificado ==
  /\ correio.d1.tipo = "error"
  /\ correio.d1.statusCode = 403
  /\ correio.d1.notVerified

\* C33: one call of sendEmailViaResend makes at most two send attempts; it
\* makes the second, with the fallback sender, exactly when a primary sender
\* is configured and the first attempt failed with a 403 'not verified'
\* error; after any other provider error it ends with a failure result after
\* one attempt.
C33_NoMaximoDuasTentativas ==
  ViaResend =>
    /\ Len(correio.r.froms) \in {1, 2}
    /\ Len(correio.r.froms) = 2 <=> correio.cfg.primaryFrom /\ SenderNaoVerificado
    /\ Len(correio.r.froms) = 2 => correio.r.froms = <<"primary", "fallback">>
    /\ correio.d1.tipo = "error" /\ ~(correio.cfg.primaryFrom /\ SenderNaoVerificado) =>
         /\ ~correio.r.ok
         /\ correio.r.reason = "resend_error"
         /\ Len(correio.r.froms) = 1

\* the primary sender was refused as not verified and the fallback sender
\* got the e-mail through
C33_Witness ==
  /\ ViaResend
  /\ correio.cfg.primaryFrom /\ SenderNaoVerificado
  /\ correio.r.froms = <<"primary", "fallback">>
  /\ correio.r.ok

\* ------------------------------------------------- POST /calcular-frete
CepResponde(f, code) == cep' = [cep EXCEPT ![f].pc = "done", ![f].resp = code]

\* what a storefront can ask a quote for
Cotacoes ==
  [ ceps |-> {Nulo, <<"1", "2">>, <<"0", "1", "3", "1", "0", "-", "1", "0", "0">>},
    items |-> {Js("undefined", 0), Js("array", <<>>),
               Js("array", <<[unit_price |-> 50, quantity |-> 2]>>)} ]

\* 803-821: !cepDestino || !items || items.length === 0, and a cep that does
\* not have 8 digits, are answered 400
CepChega(f) ==
  /\ cep[f].pc = "idle"
  /\ \A g \in 1..MaxFretes : g < f => cep[g].pc # "idle"
  /\ \E cepDestino \in Cotacoes.ceps, items \in Cotacoes.items :
       IF \/ cepDestino = Nulo \/ cepDestino = <<>>
          \/ Nao(items) \/ Len(items.valor) = 0
          \/ Len(SoDigitos(cepDestino)) # 8
       THEN CepResponde(f, 400)
       ELSE cep' = [cep EXCEPT ![f].pc = "viacep"]
  /\ UNCHANGED <<pedidos, now, ticks, mp, cron, me, enviados, carrinho, gravacoes, trilha, webhook,
                 pref, preferencias, rastreio, correio>>

\* 828-840, 842, 869-874: one pass of while (attempts < maxAttempts): the
\* primary service answers, or it fails (non-2xx, timeout, not JSON, erro)
\* and the request goes to the fallback on the last attempt, and otherwise
\* counts the attempt, waits and takes the loop's test again
CepViaCep(f) ==
  /\ cep[f].pc = "viacep"
  /\ \/ cep' = [cep EXCEPT ![f].pc = "calculate", ![f].viaCep = @ + 1,
                           ![f].addressInfo = "viacep"]
     \/ cep' = [cep EXCEPT ![f] =
                 IF cep[f].attempts = maxAttempts - 1
                 THEN [@ EXCEPT !.pc = "brasilapi", !.viaCep = @ + 1]
                 ELSE [@ EXCEPT !.pc = IF cep[f].attempts + 1 < maxAttempts
                                       THEN "viacep" ELSE "calculate",
                                !.viaCep = @ + 1, !.attempts = @ + 1]]
  /\ UNCHANGED <<pedidos, now, ticks, mp, cron, me, enviados, carrinho, gravacoes, trilha, webhook,
                 pref, preferencias, rastreio, correio>>

\* a fallback that is asked again when it fails
CepBrasilApiInsistente(f) ==
  /\ cep[f].pc = "brasilapi"
  /\ \/ cep' = [cep EXCEPT ![f].pc = "calculate", ![f].brasilApi = @ + 1,
                           ![f].addressInfo = "brasilapi"]
     \/ cep' = [cep EXCEPT ![f].brasilApi = @ + 1]
  /\ UNCHANGED <<pedidos, now, ticks, mp, cron, me, enviados, carrinho, gravacoes, trilha, webhook,
                 pref, preferencias, rastreio, correio>>

\* 843-867, 944-947: the fallback service answers, or it fails and the
\* request is answered 500
CepBrasilApi(f) ==
  /\ cep[f].pc = "brasilapi"
  /\ \/ cep' = [cep EXCEPT ![f].pc = "calculate", ![f].brasilApi = @ + 1,
                           ![f].addressInfo = "brasilapi"]
     \/ cep' = [cep EXCEPT ![f].pc = "done", ![f].brasilApi = @ + 1, ![f].resp = 500]
  /\ UNCHANGED <<pedidos, now, ticks, mp, cron, me, enviados, carrinho, gravacoes, trilha, webhook,
                 pref, preferencias, rastreio, correio>>

\* 878-947: the carrier's quote, answered 200, or 500 when the call throws
CepCalculate(f) ==
  /\ cep[f].pc = "calculate"
  /\ \/ CepResponde(f, 200)
     \/ CepResponde(f, 500)
  /\ UNCHANGED <<pedidos, now, ticks, mp, cron, me, enviados, carrinho, gravacoes, trilha, webhook,
                 pref, preferencias, rastreio, correio>>

CepNext ==
  \E f \in 1..MaxFretes :
    \/ CepChega(f)
    \/ CepViaCep(f)
    \/ CepBrasilApi(f)
    \/ CepCalculate(f)

\* quotes alone
SpecCep == InitVazio /\ [][CepNext]_vars

\* ------------------------------------------------------------------ C34
\* the steps a request can still take, at most: it falls with every step
Restante(r) ==
  CASE r.pc = "idle" -> 2 * maxAttempts + 4
    [] r.pc = "viacep" -> 2 * (maxAttempts - r.viaCep) + 2
    [] r.pc = "brasilapi" -> 2
    [] r.pc = "calculate" -> 1
    [] r.pc = "done" -> 0

\* the calls of the two services are bounded, the fallback is called after
\* the last failure of the primary service alone, a request that got its
\* address calls no service again, and a request without an address is
\* answered with an error
C34_Estado ==
  \A f \in 1..MaxFretes :
    /\ cep[f].viaCep <= maxAttempts
    /\ cep[f].brasilApi <= 1
    /\ cep[f].brasilApi = 1 => cep[f].viaCep = maxAttempts
    /\ cep[f].pc = "brasilapi" => cep[f].viaCep = maxAttempts /\ cep[f].brasilApi = 0
    /\ cep[f].pc = "viacep" => cep[f].addressInfo = NULL
    /\ cep[f].addressInfo = "viacep" => cep[f].brasilApi = 0
    /\ cep[f].pc = "calculate" => cep[f].addressInfo # NULL
    /\ cep[f].pc = "done" /\ cep[f].addressInfo = NULL => cep[f].resp \in {400, 500}
    /\ cep[f].pc = "done" /\ cep[f].brasilApi = 1 /\ cep[f].addressInfo = NULL =>
         cep[f].resp = 500

\* every step of a request brings it nearer to its answer, and a request
\* that has its address calls neither service again
C34_Passo ==
  \A f \in 1..MaxFretes :
    cep'[f] # cep[f] =>
      /\ Restante(cep'[f]) < Restante(cep[f])
      /\ cep[f].addressInfo # NULL =>
           cep'[f].viaCep = cep[f].viaCep /\ cep'[f].brasilApi = cep[f].brasilApi

\* C34: the postal lookup of a quote always terminates: it calls the primary
\* service at most 3 times, the fallback service at most once and only after
\* the third failure of the primary service, stops at the first success, and
\* answers with an error when the fallback fails as well.
C34_BuscaTermina == []C34_Estado /\ [][C34_Passo]_vars

\* a quote whose three primary calls and fallback call all failed was
\* answered 500, beside one that was answered after a primary success
C34_Witness ==
  \E f, g \in 1..MaxFretes :
    /\ cep[f].pc = "done" /\ cep[f].viaCep = maxAttempts /\ cep[f].brasilApi = 1
    /\ cep[f].addressInfo = NULL /\ cep[f].resp = 500
    /\ cep[g].pc = "done" /\ cep[g].addressInfo = "viacep" /\ cep[g].resp = 200

\* --------------------------- requests of one kind that meet each other
\* orders in any status, all past their deadline, and room for sweeps and
\* tracking webhooks that repeat and overlap
InitRepetidos ==
  /\ now = EXPIRACAO_MINUTOS + 1
  /\ \E st \in [1..NumPedidosVencidos -> {AGUARDANDO, PENDENTE, EM_PRODUCAO, ENVIADO, CANCELADO}] :
       /\ pedidos = [o \in 1..NumPedidosVencidos |-> PedidoNoStatus(st[o])]
       /\ trilha = [o \in 1..NumPedidosVencidos |-> Historico(st[o])]
       /\ enviados = [o \in 1..NumPedidosVencidos |-> EnviadosNoStatus(st[o])]
       /\ carrinho = [o \in 1..NumPedidosVencidos |->
                        IF st[o] \in {EM_PRODUCAO, ENVIADO} THEN 1 ELSE 0]
       /\ gravacoes = [o \in 1..NumPedidosVencidos |->
                         IF st[o] \in {EM_PRODUCAO, ENVIADO} THEN 1 ELSE 0]
  /\ ticks = 0
  /\ mp = [h \in MpHooks |-> MpIdle]
  /\ cron = [s \in 1..MaxRepetidos |-> CronIdle]
  /\ me = [t \in 1..MaxRepetidos |-> MeIdle]
  /\ webhook = SemWebhook
  /\ LojaParada

\* no request of reqs has arrived
Parados(reqs) == \A i \in DOMAIN reqs : reqs[i].pc = "idle"

\* tracking webhooks that overlap each other, or sweeps that overlap each
\* other and a payment webhook; the table they meet stands for what other
\* requests have done before
RepetidosNext ==
  \/ \E s \in DOMAIN cron :
       \/ Parados(me) /\ CronChega(s)
       \/ CronSelect(s)
       \/ CronUpdate(s)
       \/ CronEmail(s)
  \/ \E t \in DOMAIN me :
       \/ Parados(mp) /\ Parados(cron) /\ MeChega(t)
       \/ MeSelect(t)
       \/ MeUpdate(t)
       \/ MeEmail(t)
  \/ \E h \in {1} :
       \/ Parados(me) /\ MpChega(h)
       \/ MpLookup(h)
       \/ MpSelect(h)
       \/ MpUpdate(h)
       \/ MpReselect(h)
       \/ MpEmail(h)
       \/ MpCarrinho(h)
       \/ MpSalvarMe(h)

SpecRepetidos == InitRepetidos /\ [][RepetidosNext]_vars

\* ------------------------------------------------------------------ C32
\* no call of sendEmail throws, whatever the provider does, and some calls
\* fail; a handler holds the result of its e-mail only until its next step
C32_Estado ==
  /\ \A r \in Envios : ~r.lancou
  /\ \E r \in Envios : ~r.ok /\ r.reason = "exception"
  /\ \E r \in Envios : ~r.ok /\ r.reason = "resend_error"
  /\ \A h \in DOMAIN mp : mp[h].emailOk # NULL => mp[h].pc = "carrinho"
  /\ \A s \in DOMAIN cron :
       cron[s].emailOk # NULL => cron[s].pc = "update" /\ cron[s].fila # <<>>

\* a handler goes on after its e-mail as if it had been delivered: the
\* payment webhook to the carrier booking, which it then attempts, the sweep
\* to the next order it selected or to its answer, the tracking webhook to
\* its answer
C32_Passo ==
  /\ \A h \in DOMAIN mp :
       /\ mp[h].pc = "email" /\ mp'[h] # mp[h] =>
            mp'[h].pc = "carrinho" /\ mp'[h].emailOk \in {"ok", "not_ok"}
       /\ mp[h].pc = "carrinho" /\ mp'[h] # mp[h] =>
            carrinho'[mp[h].pedidoId] = carrinho[mp[h].pedidoId] + 1
  /\ \A s \in DOMAIN cron :
       cron[s].pc = "email" /\ cron'[s] # cron[s] =>
         IF Len(cron[s].fila) > 1
         THEN /\ cron'[s].pc = "update"
              /\ cron'[s].fila = Tail(cron[s].fila)
              /\ cron'[s].emailOk \in {"ok", "not_ok"}
         ELSE cron'[s].pc = "done" /\ cron'[s].resp = 200
  /\ \A t \in DOMAIN me :
       me[t].pc = "email" /\ me'[t] # me[t] => me'[t].pc = "done" /\ me'[t].resp = 200

\* C32: a delivery failure of the mail provider (an error result or an
\* exception inside the provider call) in the confirmation, tracking or
\* expiry e-mail never throws to the caller: after a failed confirmation
\* e-mail the carrier booking is attempted, after a failed expiry e-mail the
\* sweep goes on with the remaining orders, after a failed tracking e-mail
\* the webhook is answered with success.
C32_FalhaDeEmailNaoLanca == []C32_Estado /\ [][C32_Passo]_vars

\* a payment webhook is about to book after a failed confirmation e-mail
\* while a sweep is about to cancel its next order after a failed expiry
\* e-mail
C32_Witness ==
  \E h \in DOMAIN mp, s \in DOMAIN cron :
    /\ mp[h].pc = "carrinho" /\ mp[h].emailOk = "not_ok"
    /\ cron[s].pc = "update" /\ cron[s].emailOk = "not_ok" /\ cron[s].fila # <<>>

\* ------------------------------------------------------------------ C35
\* C35: for every order, at most one expiry e-mail is sent over any number of
\* runs of the sweep, runs that overlap included.
C35_UmEmailDeExpiracao ==
  \A o \in Pedidos : enviados[o].expiry <= 1

\* ------------------------------------------------------------------ C36
\* C36: for every order, repeated tracking webhooks for the same shipment
\* send at most one tracking e-mail.
C36_UmEmailDeRastreio ==
  \A o \in Pedidos : enviados[o].tracking <= 1

\* ------------------------------------------------------------------ C37
\* C37: a checkout that was answered with a failure has left no row in the
\* table, so that no sweep sends an expiry e-mail for an order of its own.
C37_FalhaNaoDeixaPedido ==
  \A c \in 1..MaxCheckouts :
    pref[c].pc = "done" /\ pref[c].resp # 201 => pref[c].novoPedidoId \notin Pedidos

\* ------------------------------------------------------------------ C38
\* the step is h's approved UPDATE (not its failure) on an order that is
\* still AGUARDANDO_PAGAMENTO or PAGAMENTO_PENDENTE
AprovadoChegaATempo(h) ==
  /\ mp[h].pc = "update"
  /\ mp[h].isApproved
  /\ mp'[h] # mp[h]
  /\ mp'[h].fim # "erro_db"
  /\ mp[h].pedidoId \in Pedidos
  /\ pedidos[mp[h].pedidoId].status \in PredecessoresAprovado

\* whatever the clock says, such an UPDATE moves the order to EM_PRODUCAO with
\* the payment's id, and the handler goes on to its e-mail and its booking
C38_Passo ==
  \A h \in MpHooks :
    AprovadoChegaATempo(h) =>
      /\ pedidos'[mp[h].pedidoId].status = EM_PRODUCAO
      /\ pedidos'[mp[h].pedidoId].mercado_pago_id = mp[h].paymentId
      /\ mp'[h].pc = "reselect"
      /\ mp'[h].affectedRows = 1

\* C38: the payment webhook does not consult the payment window: an approved
\* event for an order still AGUARDANDO_PAGAMENTO or PAGAMENTO_PENDENTE moves it
\* to EM_PRODUCAO and goes on to the side effects even after the deadline, as
\* long as no sweep has cancelled the order first.
C38_AprovadoSemPrazo == [][C38_Passo]_vars

\* after its deadline an order was paid: the handler has sent the confirmation
\* e-mail and booked the shipment, and no sweep had cancelled the order
C38_Witness ==
  \E o \in Pedidos, h \in MpHooks :
    /\ now > pedidos[o].expiracao_pix
    /\ mp[h].pedidoId = o /\ mp[h].fim = "em_producao"
    /\ pedidos[o].status = EM_PRODUCAO
    /\ trilha[o][Len(trilha[o])] = EM_PRODUCAO
    /\ CANCELADO \notin {trilha[o][i] : i \in DOMAIN trilha[o]}
    /\ enviados[o].confirm = 1
    /\ carrinho[o] = 1

\* ------------------------------------------- the sweep, run after run
\* 1099: the scheduler calls GET /checar-pedidos-expirados again once the
\* run before it was answered
CronDeNovo(s) ==
  /\ cron[s].pc = "done"
  /\ cron' = [cron EXCEPT ![s] = CronIdle]
  /\ UNCHANGED <<pedidos, now, ticks, mp, me, enviados, carrinho, gravacoes, trilha, webhook, loja>>

\* the clock, the sweep run after run, and one payment webhook beside them
JustoNext ==
  \/ Tick
  \/ \E s \in CronRuns :
       \/ CronChega(s)
       \/ CronSelect(s)
       \/ CronUpdate(s)
       \/ CronEmail(s)
       \/ CronDeNovo(s)
  \/ \E h \in {1} :
       \/ MpChega(h)
       \/ MpLookup(h)
       \/ MpSelect(h)
       \/ MpUpdate(h)
       \/ MpReselect(h)
       \/ MpEmail(h)
       \/ MpCarrinho(h)
       \/ MpSalvarMe(h)

\* time passes; the scheduler triggers the sweep again and again with its
\* token; each run completes: its SELECT and its UPDATEs may fail, but not
\* in every run for ever.  No fairness for the payment webhook.
Justica ==
  /\ WF_vars(Tick)
  /\ \A s \in CronRuns :
       /\ WF_vars(CronDeNovo(s))
       /\ SF_vars(CronChega(s) /\ cron'[s].pc = "select")
       /\ SF_vars(CronSelect(s) /\ cron'[s].resp # 500)
       /\ SF_vars(CronUpdate(s) /\ cron'[s].pc = "email")
       /\ WF_vars(CronEmail(s))

SpecJusto == InitMp /\ [][JustoNext]_vars /\ Justica

\* ------------------------------------------------------------------ C39
\* a payment webhook has looked up an approved payment of order o
AprovadoRecebido(o) ==
  \E h \in MpHooks : mp[h].isApproved /\ mp[h].pedidoId = o

VencidoECancelado(o) ==
  /\ pedidos[o].status = CANCELADO
  /\ now > pedidos[o].expiracao_pix

\* C39: when the sweep is triggered again and again and its runs complete,
\* every order that never receives an approved payment event is eventually
\* CANCELADO_POR_EXPIRACAO, after its deadline has passed, and stays so.
C39_VencidoAcabaCancelado ==
  \A o \in PedidosNoInicio :
    ([]~AprovadoRecebido(o)) => <>[]VencidoECancelado(o)

\* an order that a pending event had moved to PAGAMENTO_PENDENTE, and that no
\* approved event was received for, is cancelled after its deadline by a
\* sweep run
C39_Witness ==
  \E o \in Pedidos :
    /\ ~AprovadoRecebido(o)
    /\ VencidoECancelado(o)
    /\ trilha[o] = <<AGUARDANDO, PENDENTE, CANCELADO>>
    /\ enviados[o].expiry = 1
    /\ \E s \in CronRuns : cron[s].pc = "done" /\ cron[s].resp = 200

====
